---- MODULE Spec2Model ----
(***************************************************************************)
(* Model of the media_storage upload / verify protocol:                    *)
(*   CloudFlareR2StorageService.uploadFile, FirebaseStorageService         *)
(*   .uploadFile, GoogleDriveStorageService.uploadFile, verifyStorage and  *)
(*   the utilities they call (computeSRI, sriToHex, buildImmutableKey,     *)
(*   finalizeResult, assertHasIntegrity), deleteFileFromStorage and the    *)
(*   EnvironmentRegister.                                                  *)
(*                                                                         *)
(* JavaScript strings are sequences of one-character strings, Buffers are  *)
(* sequences of octets, and an optional value (T | undefined) is the set   *)
(* {} (undefined) or {v}.  Every await of a backend call is one step.      *)
(***************************************************************************)
EXTENDS Integers, Sequences, FiniteSets, TLC

VARIABLES
    provider,     \* which service the two calls run on: "r2" | "firebase" | "drive"
    store,        \* backend objects: locator id (key / objectPath / fileId) -> object
    pc,           \* position of each uploadFile call
    input,        \* objectParams of each call ({} before the call is made)
    probeExists,  \* the local `exists` of the R2 uploadFile
    created,      \* Drive: resp.data.id of files.create ({} before)
    links,        \* Drive: value of `links` ({} is null)
    outcome,      \* the VerifyOutcome the call's verifyStorage returned ({} before)
    error,        \* the error the call rejected with ({} if none)
    log,          \* backend calls issued by each call, in order, with their result
    faults,       \* number of injected backend errors so far
    envSteps,     \* number of writes / deletes by other clients so far
    environments, \* EnvironmentRegister: the own properties of this.environments
    processEnv    \* process.env

vars == <<provider, store, pc, input, probeExists, created, links, outcome,
          error, log, faults, envSteps, environments, processEnv>>

(***************************************************************************)
(* Bounds                                                                  *)
(***************************************************************************)
DigestBytes == 32     \* octets of a sha256 digest
MaxFaults == 2        \* injected backend errors per run
MaxEnvSteps == 2      \* writes / deletes by other clients per run

\* EnvironmentRegister as constructed (this.environments = {}), no variable set
EnvVars == {"R2_BUCKET", "R2_SECRET", "R2_ACCESS_KEY_SECRET"}
NoEnvironments == [k \in {} |-> {}]
NoProcessEnv == [v \in EnvVars |-> {}]

Calls == {"u1", "u2"}
Providers == {"r2", "firebase", "drive"}

None == {}
Some(v) == {v}
Val(opt) == CHOOSE v \in opt : TRUE

Min(a, b) == IF a < b THEN a ELSE b

(***************************************************************************)
(* Strings                                                                 *)
(***************************************************************************)
HexDigits == <<"0","1","2","3","4","5","6","7","8","9","a","b","c","d","e","f">>

B64Alphabet ==
    <<"A","B","C","D","E","F","G","H","I","J","K","L","M","N","O","P",
      "Q","R","S","T","U","V","W","X","Y","Z","a","b","c","d","e","f",
      "g","h","i","j","k","l","m","n","o","p","q","r","s","t","u","v",
      "w","x","y","z","0","1","2","3","4","5","6","7","8","9","+","/">>

B64Chars == {B64Alphabet[i] : i \in 1..64}

\* s.split(sep): the pieces of s between occurrences of the character sep
Split(s, sep) ==
    LET seps == {i \in 1..Len(s) : s[i] = sep}
        at(k) == IF k = 0 THEN 0
                 ELSE IF k > Cardinality(seps) THEN Len(s) + 1
                 ELSE CHOOSE i \in seps : Cardinality({j \in seps : j <= i}) = k
    IN  [k \in 1..(Cardinality(seps) + 1) |-> SubSeq(s, at(k - 1) + 1, at(k) - 1)]

\* s.replace(/\/+/g, "/")
RECURSIVE CollapseSlashes(_)
CollapseSlashes(s) ==
    IF Len(s) < 2 THEN s
    ELSE IF s[1] = "/" /\ s[2] = "/" THEN CollapseSlashes(Tail(s))
    ELSE <<s[1]>> \o CollapseSlashes(Tail(s))

\* buf.toString('hex')
ToHex(bytes) ==
    [i \in 1..(2 * Len(bytes)) |->
        IF i % 2 = 1 THEN HexDigits[(bytes[(i + 1) \div 2] \div 16) + 1]
        ELSE HexDigits[(bytes[i \div 2] % 16) + 1]]

\* buf.toString('base64') / digest('base64'), with '=' padding
ToBase64(bytes) ==
    LET n == Len(bytes)
        at(i) == IF i <= n THEN bytes[i] ELSE 0
    IN  [i \in 1..(4 * ((n + 2) \div 3)) |->
            LET k == 3 * ((i - 1) \div 4)
                j == (i - 1) % 4
            IN  IF j = 0 THEN B64Alphabet[(at(k + 1) \div 4) + 1]
                ELSE IF j = 1
                    THEN B64Alphabet[((at(k + 1) % 4) * 16) + (at(k + 2) \div 16) + 1]
                ELSE IF j = 2
                    THEN IF k + 2 > n THEN "="
                         ELSE B64Alphabet[((at(k + 2) % 16) * 4) + (at(k + 3) \div 64) + 1]
                ELSE IF k + 3 > n THEN "=" ELSE B64Alphabet[(at(k + 3) % 64) + 1]]

B64Index(c) == (CHOOSE i \in 1..64 : B64Alphabet[i] = c) - 1

\* the sextets of a base64 text: decoding stops at '=', other characters are skipped
Sextets(s) ==
    LET pads == {i \in 1..Len(s) : s[i] = "="}
        end == IF pads = {} THEN Len(s) ELSE (CHOOSE i \in pads : \A j \in pads : i <= j) - 1
        kept == SelectSeq(SubSeq(s, 1, end), LAMBDA c : c \in B64Chars)
    IN  [i \in 1..Len(kept) |-> B64Index(kept[i])]

SextetsToBytes(x) ==
    [m \in 1..((3 * Len(x)) \div 4) |->
        LET k == 4 * ((m - 1) \div 3)
            j == (m - 1) % 3
        IN  IF j = 0 THEN x[k + 1] * 4 + (x[k + 2] \div 16)
            ELSE IF j = 1 THEN (x[k + 2] % 16) * 16 + (x[k + 3] \div 4)
            ELSE (x[k + 3] % 4) * 64 + x[k + 4]]

\* Buffer.from(b64, 'base64')
FromBase64(s) == SextetsToBytes(Sextets(s))

(***************************************************************************)
(* utils/encryptions.ts, utils/integrity.ts                                *)
(***************************************************************************)
\* crypto.createHash('sha256'): a DigestBytes-octet digest, injective on Contents
RECURSIVE Mix(_, _)
Mix(data, h) ==
    IF data = <<>> THEN h % 256
    ELSE Mix(Tail(data), (h * 31 + Head(data) + 1) % 256)

Sha256(data) == [i \in 1..DigestBytes |-> Mix(data, 7 * i)]

sha256Hex(buf) == ToHex(Sha256(buf))

shortHash(hex, len) == SubSeq(hex, 1, Min(len, Len(hex)))

\* path.extname(name).replace(/^\./, "") || "bin"
LastDot(name) ==
    LET dots == {i \in 1..Len(name) : name[i] = "."}
    IN  IF dots = {} THEN 0 ELSE CHOOSE i \in dots : \A j \in dots : j <= i

extFromNameOrMime(name) ==
    LET d == LastDot(name)
        ext == IF d <= 1 THEN <<>> ELSE SubSeq(name, d + 1, Len(name))
    IN  IF ext = <<>> THEN <<"b","i","n">> ELSE ext

\* a key built from the file name as well
buildImmutableKeyNamed(uploadPath, filename, data, useShort) ==
    LET hash == sha256Hex(data)
        hashPart == IF useShort THEN shortHash(hash, 20) ELSE hash
    IN  [key |-> CollapseSlashes(uploadPath \o <<"/">> \o hashPart \o <<"-">> \o filename),
         hash |-> hash]

\* a key that always carries the whole digest
buildImmutableKeyLong(uploadPath, filename, data, useShort) ==
    LET hash == sha256Hex(data)
        ext == extFromNameOrMime(filename)
    IN  [key |-> CollapseSlashes(uploadPath \o <<"/">> \o hash \o <<".">> \o ext),
         hash |-> hash]

buildImmutableKey(uploadPath, filename, data, useShort) ==
    LET hash == sha256Hex(data)
        ext == extFromNameOrMime(filename)
        hashPart == IF useShort THEN shortHash(hash, 20) ELSE hash
    IN  [key |-> CollapseSlashes(uploadPath \o <<"/">> \o hashPart \o <<".">> \o ext),
         hash |-> hash]

\* IntegrityAlgo, and the digest sizes: 32, 48 and 64 octets
SHA256 == <<"s","h","a","2","5","6">>
SHA384 == <<"s","h","a","3","8","4">>
SHA512 == <<"s","h","a","5","1","2">>
Algos == {SHA256, SHA384, SHA512}

DigestSize(algo) ==
    IF algo = SHA256 THEN DigestBytes
    ELSE IF algo = SHA384 THEN DigestBytes + DigestBytes \div 2 ELSE 2 * DigestBytes

\* createHash(algo).update(buf).digest()
Hash(algo, data) ==
    IF algo = SHA256 THEN Sha256(data)
    ELSE [i \in 1..DigestSize(algo) |-> Mix(data, 7 * i + DigestSize(algo))]

computeSRI(data, algo) == algo \o <<"-">> \o ToBase64(Hash(algo, data))

\* Buffer.from(undefined, 'base64'): the first argument must be of type string
InvalidArgType ==
    [type |-> "TypeError",
     message |-> <<"The", "first", "argument", "must", "be", "of", "type", "string">>]

\* const [algo, b64] = sri.split('-')
parseSRI(sri) ==
    LET parts == Split(sri, "-")
    IN  [algo |-> parts[1], b64 |-> IF Len(parts) >= 2 THEN Some(parts[2]) ELSE None]

base64ToHex(b64) == ToHex(FromBase64(b64))

\* a decoder given the whole tag instead of its base64 part
sriToHexWholeTag(sri) == [throws |-> FALSE, value |-> ToHex(FromBase64(sri))]

\* const [, b64] = sri.split('-', 2)
sriToHex(sri) ==
    LET parts == Split(sri, "-")
    IN  IF Len(parts) < 2 THEN [throws |-> TRUE, err |-> InvalidArgType]
        ELSE [throws |-> FALSE, value |-> ToHex(FromBase64(parts[2]))]

(***************************************************************************)
(* Inputs                                                                  *)
(***************************************************************************)
Contents == {<<1>>, <<2, 3>>}                      \* file.data
Names == {<<"a",".","p","n","g">>, <<"b",".","p","n","g">>}   \* file.name
UploadPath == <<"u","p">>                          \* objectParams.uploadPath
ParentId == <<"d","i","r">>                        \* objectParams.parentPathIds[0]
CdnBase == <<"c","d","n">>                         \* r2_cdn_base
Bucket == <<"b","k","t">>                          \* r2_bucket / firebase bucket

Inputs == [data : Contents, name : Names]

\* objectParams whose file.data is undefined
InputsWithoutData == [name : Names]

HasData(inp) == "data" \in DOMAIN inp

\* bufferToStream(file.data): push(undefined) adds nothing to the stream
BodyOf(inp) == IF HasData(inp) THEN inp.data ELSE <<>>

Truthy(opt) == opt # None /\ Val(opt) # <<>>

(***************************************************************************)
(* Errors and their messages (a message is its sequence of words)          *)
(***************************************************************************)
BackendError(op, status) == [type |-> "backend", op |-> op, status |-> status]
ErrorOf(words) == [type |-> "Error", message |-> words]

NotFoundAfterUpload(prov) ==
    IF prov = "drive"
    THEN <<"verifyStorage:", "Drive", "file", "not", "found", "after", "upload", "(id)">>
    ELSE <<"verifyStorage:", "object", "not", "found", "after", "upload", "(uri)">>

Sha256Mismatch(prov) ==
    IF prov = "r2"
    THEN <<"verifyStorage:", "sha256", "mismatch", "after", "upload", "(expected)">>
    ELSE <<"verifyStorage:", "sha256", "mismatch", "after", "upload", "(firebase)">>

SizeMismatch(prov) ==
    IF prov = "r2"
    THEN <<"verifyStorage:", "size", "mismatch", "after", "upload">>
    ELSE <<"verifyStorage:", "size", "mismatch", "after", "upload", "(provider)">>

\* message.includes(keyword), on words
Contains(msg, kw) ==
    \E i \in 0..(Len(msg) - Len(kw)) : SubSeq(msg, i + 1, i + Len(kw)) = kw

(***************************************************************************)
(* utils/validate.ts, utils/baseStorage.ts                                 *)
(***************************************************************************)
\* /^(sha(256|384|512))-[A-Za-z0-9+/=]+$/.test(s)
ValidSRI(s) ==
    /\ Len(s) >= 8
    /\ SubSeq(s, 1, 3) = <<"s","h","a">>
    /\ SubSeq(s, 4, 6) \in {<<"2","5","6">>, <<"3","8","4">>, <<"5","1","2">>}
    /\ s[7] = "-"
    /\ \A i \in 8..Len(s) : s[i] \in B64Chars \cup {"="}

assertHasIntegrity(res) ==
    IF ~Truthy(res.integrity) \/ ~ValidSRI(Val(res.integrity))
    THEN [throws |-> TRUE,
          err |-> ErrorOf(<<"StorageResult", "missing", "valid", "integrity", "(SRI)", "value">>)]
    ELSE [throws |-> FALSE, value |-> res]

\* a finalizeResult that recomputes the integrity whenever data is supplied
finalizeResultRecomputing(fields, data, algo) ==
    LET sri == IF data # None
               THEN Some(computeSRI(Val(data), IF algo = None THEN SHA256 ELSE Val(algo)))
               ELSE fields.integrity
    IN  IF ~Truthy(sri)
        THEN [throws |-> TRUE,
              err |-> ErrorOf(<<"Integrity", "missing", "and", "no", "data",
                               "provided", "to", "compute", "it">>)]
        ELSE assertHasIntegrity(
                [url |-> fields.url, downloadUrl |-> fields.downloadUrl,
                 key |-> fields.key, integrity |-> sri,
                 sizeBytes |-> fields.sizeBytes, locator |-> fields.locator])

\* finalizeResult({url, downloadUrl, key, integrity, locator, sizeBytes}, {data, algo})
finalizeResult(fields, data, algo) ==
    LET sri == IF fields.integrity # None THEN fields.integrity
               ELSE IF data # None
               THEN Some(computeSRI(Val(data), IF algo = None THEN SHA256 ELSE Val(algo)))
               ELSE None
    IN  IF ~Truthy(sri)
        THEN [throws |-> TRUE,
              err |-> ErrorOf(<<"Integrity", "missing", "and", "no", "data",
                               "provided", "to", "compute", "it">>)]
        ELSE assertHasIntegrity(
                [url |-> fields.url, downloadUrl |-> fields.downloadUrl,
                 key |-> fields.key, integrity |-> sri,
                 sizeBytes |-> fields.sizeBytes, locator |-> fields.locator])

(***************************************************************************)
(* utils/universalIntegrityVerifier.ts                                     *)
(***************************************************************************)
Outcome(exists, integrityMatches, sizeMatches, details) ==
    [exists |-> exists, integrityMatches |-> integrityMatches,
     sizeMatches |-> sizeMatches, details |-> details]

Returns(o) == [throws |-> FALSE, outcome |-> o]
Throws(e) == [throws |-> TRUE, err |-> e]

\* base64ToHex(parseSRI(sri).b64), tabulated for the digest tags of the inputs
KnownSRI == {computeSRI(data, SHA256) : data \in Contents}
SriHexOf == [sri \in KnownSRI |-> base64ToHex(Val(parseSRI(sri).b64))]
SriHex(sri) ==
    IF sri \in KnownSRI THEN SriHexOf[sri] ELSE base64ToHex(Val(parseSRI(sri).b64))

\* hash.update(undefined): the "data" argument must be of type string or ...
InvalidDataArg ==
    [type |-> "TypeError",
     message |-> <<"The", "\"data\"", "argument", "must", "be", "of", "type", "string">>]

\* expectedSha256Hex / expectedSize of verifyStorage
Expected(resultOrLocator) ==
    IF "integrity" \in DOMAIN resultOrLocator /\ Truthy(resultOrLocator.integrity)
    THEN IF parseSRI(Val(resultOrLocator.integrity)).b64 = None
         THEN [throws |-> TRUE, err |-> InvalidArgType]
         ELSE [throws |-> FALSE,
               sha |-> Some(SriHex(Val(resultOrLocator.integrity))),
               size |-> resultOrLocator.sizeBytes]
    ELSE [throws |-> FALSE, sha |-> None, size |-> None]

LocatorOf(resultOrLocator) ==
    IF "locator" \in DOMAIN resultOrLocator /\ resultOrLocator.locator # None
    THEN Val(resultOrLocator.locator)
    ELSE resultOrLocator

\* a not-found test that knows 404 only
NotFoundStatus404Only(status) == status = Some(404)

NotFoundStatus(status) == status # None /\ Val(status) \in {403, 404}

\* verifyR2 comparing the stored sha256 also when none is expected
verifyR2ComparingAlways(hasClient, head, expectedSha256Hex, expectedSize) ==
    IF ~hasClient
    THEN Returns(Outcome(FALSE, "unknown", None, Some("Missing S3 client")))
    ELSE IF head.ok
    THEN Returns(Outcome(TRUE,
                         IF head.Metadata = expectedSha256Hex THEN "true" ELSE "false",
                         IF expectedSize # None
                         THEN Some(head.ContentLength = expectedSize) ELSE None,
                         None))
    ELSE IF head.err.status \in {Some(403), Some(404)}
    THEN Returns(Outcome(FALSE, "unknown", None, None))
    ELSE Throws(head.err)

\* verifyR2 without the comparison of the stored sha256
verifyR2IgnoringStoredSha(hasClient, head, expectedSha256Hex, expectedSize) ==
    IF ~hasClient
    THEN Returns(Outcome(FALSE, "unknown", None, Some("Missing S3 client")))
    ELSE IF head.ok
    THEN Returns(Outcome(TRUE, "true",
                         IF expectedSize # None
                         THEN Some(head.ContentLength = expectedSize) ELSE None,
                         None))
    ELSE IF NotFoundStatus(head.err.status)
    THEN Returns(Outcome(FALSE, "unknown", None, None))
    ELSE Throws(head.err)

\* verifyR2, given the answer of the HeadObject it sends
verifyR2(hasClient, head, expectedSha256Hex, expectedSize) ==
    IF ~hasClient
    THEN Returns(Outcome(FALSE, "unknown", None, Some("Missing S3 client")))
    ELSE IF head.ok
    THEN LET storedSha == head.Metadata
             sizeMatches == IF expectedSize # None
                            THEN Some(head.ContentLength = expectedSize) ELSE None
         IN  IF ~Truthy(expectedSha256Hex)
             THEN Returns(Outcome(TRUE, "unknown", sizeMatches, None))
             ELSE Returns(Outcome(TRUE,
                                  IF storedSha = expectedSha256Hex THEN "true" ELSE "false",
                                  sizeMatches, None))
    ELSE IF NotFoundStatus(head.err.status)
    THEN Returns(Outcome(FALSE, "unknown", None, None))
    ELSE Throws(head.err)

\* verifyFirebase after file.exists() answered true, given the answer of getMetadata()
verifyFirebaseMeta(meta, expectedSha256Hex, expectedSize) ==
    IF ~meta.ok THEN Throws(meta.err)
    ELSE LET customSha == meta.Metadata
             sizeMatches == IF expectedSize # None
                            THEN Some(meta.ContentLength = expectedSize) ELSE None
         IN  IF ~Truthy(expectedSha256Hex)
             THEN Returns(Outcome(TRUE, "unknown", sizeMatches, None))
             ELSE IF ~Truthy(customSha)
             THEN Returns(Outcome(TRUE, "unknown", sizeMatches,
                                  Some("No sha256 custom metadata present")))
             ELSE Returns(Outcome(TRUE,
                                  IF customSha = expectedSha256Hex THEN "true" ELSE "false",
                                  sizeMatches, None))

\* verifyFirebase up to and including file.exists()
verifyFirebaseExists(hasClient, ex) ==
    IF ~hasClient
    THEN Returns(Outcome(FALSE, "unknown", None, Some("Missing GCS client")))
    ELSE IF ~ex.ok THEN Throws(ex.err)
    ELSE IF ~ex.exists THEN Returns(Outcome(FALSE, "unknown", None, None))
    ELSE [throws |-> FALSE, continue |-> TRUE]

\* verifyDrive reporting every failed files.get as "not found"
verifyDriveMasking(hasClient, file, expectedSize) ==
    IF ~hasClient
    THEN Returns(Outcome(FALSE, "unknown", None, Some("Missing Drive client")))
    ELSE IF file.ok
    THEN Returns(Outcome(TRUE, "unknown",
                         IF expectedSize # None
                         THEN Some(file.ContentLength = expectedSize) ELSE None,
                         None))
    ELSE Returns(Outcome(FALSE, "unknown", None, None))

\* verifyDrive deriving integrityMatches from the size comparison
verifyDriveSizeAsDigest(hasClient, file, expectedSize) ==
    IF ~hasClient
    THEN Returns(Outcome(FALSE, "unknown", None, Some("Missing Drive client")))
    ELSE IF file.ok
    THEN Returns(Outcome(TRUE,
                         IF file.ContentLength = expectedSize THEN "true" ELSE "false",
                         IF expectedSize # None
                         THEN Some(file.ContentLength = expectedSize) ELSE None,
                         None))
    ELSE IF file.err.status \in {Some(404), Some(403)}
    THEN Returns(Outcome(FALSE, "unknown", None, None))
    ELSE Throws(file.err)

\* verifyDrive, given the answer of the files.get it sends
verifyDrive(hasClient, file, expectedSize) ==
    IF ~hasClient
    THEN Returns(Outcome(FALSE, "unknown", None, Some("Missing Drive client")))
    ELSE IF file.ok
    THEN Returns(Outcome(TRUE, "unknown",
                         IF expectedSize # None
                         THEN Some(file.ContentLength = expectedSize) ELSE None,
                         None))
    ELSE IF file.err.status \in {Some(404), Some(403)}
    THEN Returns(Outcome(FALSE, "unknown", None, None))
    ELSE Throws(file.err)

\* verifyStorage: dispatch on locator.provider; ctx is the set of providers whose
\* client the context holds; answer is what the backend answers to the call sent
\* (for firebase: [ex |-> answer of exists(), meta |-> answer of getMetadata()])
verifyStorage(resultOrLocator, ctx, answer) ==
    LET locator == LocatorOf(resultOrLocator)
        exp == Expected(resultOrLocator)
    IN  IF exp.throws THEN Throws(exp.err)
        ELSE IF locator.provider = "r2"
        THEN verifyR2("r2" \in ctx, answer, exp.sha, exp.size)
        ELSE IF locator.provider = "firebase"
        THEN LET first == verifyFirebaseExists("firebase" \in ctx, answer.ex)
             IN  IF "continue" \in DOMAIN first
                 THEN verifyFirebaseMeta(answer.meta, exp.sha, exp.size)
                 ELSE first
        ELSE IF locator.provider = "drive"
        THEN verifyDrive("drive" \in ctx, answer, exp.size)
        ELSE Returns(Outcome(FALSE, "unknown", None, Some("Unknown provider")))

(***************************************************************************)
(* The backends: what a faithful backend answers, and the errors it may    *)
(* answer instead                                                          *)
(***************************************************************************)
Object(data, sha) == [data |-> data, sha |-> sha, size |-> Len(data)]

Ok == [ok |-> TRUE]
MetaOk(o) == [ok |-> TRUE, Metadata |-> o.sha, ContentLength |-> Some(o.size)]
Failed(op, status) == [ok |-> FALSE, err |-> BackendError(op, status)]

EmptyStore == [k \in {} |-> {}]
Without(st, k) == [x \in DOMAIN st \ {k} |-> st[x]]
With(st, k, o) == (k :> o) @@ st

\* S3 HeadObject: 404 for a missing key
HeadObject(st, key) ==
    IF key \in DOMAIN st THEN MetaOk(st[key]) ELSE Failed("HeadObject", Some(404))

\* S3 PutObject without a precondition: the object is always written
PutObjectOverwrite(st, key, o) == [answer |-> Ok, store |-> With(st, key, o)]

\* a PUT that is refused only when the stored sha256 metadata is the same
PutObjectUnlessSame(st, key, o) ==
    IF key \in DOMAIN st /\ st[key].sha = o.sha
    THEN [answer |-> Failed("PutObject", Some(412)), store |-> st]
    ELSE [answer |-> Ok, store |-> With(st, key, o)]

\* S3 PutObject with IfNoneMatch: "*": 412 when the key exists, else the object is created
PutObject(st, key, o) ==
    IF key \in DOMAIN st
    THEN [answer |-> Failed("PutObject", Some(412)), store |-> st]
    ELSE [answer |-> Ok, store |-> With(st, key, o)]

\* a 4xx/5xx answer or an error carrying no status (network failure)
FaultStatuses == {Some(403), Some(500), None}

\* one call to the backend, as the service's log of calls records it
LogEntry(op, answer) == [op |-> op, answer |-> answer]

(***************************************************************************)
(* CloudFlareR2StorageService.uploadFile                                   *)
(***************************************************************************)
\* the locals key, integrity and contentSha256Hex, tabulated over the inputs
R2KeyOf == [inp \in Inputs |-> buildImmutableKey(UploadPath, inp.name, inp.data, TRUE).key]
IntegrityOf == [data \in Contents |-> computeSRI(data, SHA256)]
Sha256HexOf == [data \in Contents |-> sriToHex(IntegrityOf[data]).value]

R2Key(inp) == R2KeyOf[inp]
R2Integrity(inp) == IntegrityOf[inp.data]
R2ContentSha256Hex(inp) == Sha256HexOf[inp.data]

StatusTruthy(status) == status # None /\ Val(status) # 0

\* a probe that never finds the object
ProbeOutcomeAbsent(head, contentSha256Hex) ==
    IF head.ok THEN [throws |-> FALSE, exists |-> FALSE]
    ELSE IF StatusTruthy(head.err.status) /\ Val(head.err.status) \notin {403, 404}
    THEN Throws(head.err)
    ELSE [throws |-> FALSE, exists |-> FALSE]

\* step 1: the value of `exists` after the pre-write HEAD, or the error thrown
ProbeOutcome(head, contentSha256Hex) ==
    IF head.ok
    THEN [throws |-> FALSE,
          exists |-> Truthy(head.Metadata) /\ Val(head.Metadata) = contentSha256Hex]
    ELSE IF StatusTruthy(head.err.status) /\ Val(head.err.status) \notin {403, 404}
    THEN Throws(head.err)
    ELSE [throws |-> FALSE, exists |-> FALSE]

\* a catch that rethrows the 412 as well
PutOutcomeNo412(put) == IF put.ok THEN [throws |-> FALSE] ELSE Throws(put.err)

\* a catch that swallows every PUT error
PutOutcomeLenient(put) == [throws |-> FALSE]

\* step 2: the catch around the conditional PUT
PutOutcome(put) ==
    IF put.ok THEN [throws |-> FALSE]
    ELSE IF put.err.status = Some(412) THEN [throws |-> FALSE]
    ELSE Throws(put.err)

\* the checks with the size check ahead of the digest check
PostVerifySizeFirst(prov, v) ==
    IF v.throws THEN Some(v.err)
    ELSE IF ~v.outcome.exists THEN Some(ErrorOf(NotFoundAfterUpload(prov)))
    ELSE IF v.outcome.sizeMatches = Some(FALSE) THEN Some(ErrorOf(SizeMismatch(prov)))
    ELSE IF prov # "drive" /\ v.outcome.integrityMatches = "false"
    THEN Some(ErrorOf(Sha256Mismatch(prov)))
    ELSE None

\* the checks reduced to the existence check
PostVerifyExistsOnly(prov, v) ==
    IF v.throws THEN Some(v.err)
    ELSE IF ~v.outcome.exists THEN Some(ErrorOf(NotFoundAfterUpload(prov)))
    ELSE None

\* the checks without the existence check
PostVerifyIgnoringAbsence(prov, v) ==
    IF v.throws THEN Some(v.err)
    ELSE IF prov # "drive" /\ v.outcome.integrityMatches = "false"
    THEN Some(ErrorOf(Sha256Mismatch(prov)))
    ELSE IF v.outcome.sizeMatches = Some(FALSE) THEN Some(ErrorOf(SizeMismatch(prov)))
    ELSE None

\* the checks on the verify outcome: the error thrown, if any
PostVerify(prov, v) ==
    IF v.throws THEN Some(v.err)
    ELSE IF ~v.outcome.exists THEN Some(ErrorOf(NotFoundAfterUpload(prov)))
    ELSE IF prov # "drive" /\ v.outcome.integrityMatches = "false"
    THEN Some(ErrorOf(Sha256Mismatch(prov)))
    ELSE IF v.outcome.sizeMatches = Some(FALSE) THEN Some(ErrorOf(SizeMismatch(prov)))
    ELSE None

R2ResultFor(inp) ==
    LET key == R2Key(inp)
        url == CdnBase \o <<"/">> \o key
    IN  finalizeResult(
            [url |-> url, downloadUrl |-> url, key |-> key,
             integrity |-> Some(R2Integrity(inp)), sizeBytes |-> Some(Len(inp.data)),
             locator |-> Some([provider |-> "r2", bucket |-> Bucket, key |-> key,
                              fileId |-> key, filePath |-> key])],
            None, None)

R2ResultOf == [inp \in Inputs |-> R2ResultFor(inp)]
R2Result(inp) == R2ResultOf[inp]

(***************************************************************************)
(* State machine                                                           *)
(***************************************************************************)
Init ==
    /\ provider \in Providers
    /\ store = EmptyStore
    /\ pc = [p \in Calls |-> "idle"]
    /\ input = [p \in Calls |-> None]
    /\ probeExists = [p \in Calls |-> FALSE]
    /\ created = [p \in Calls |-> None]
    /\ links = [p \in Calls |-> None]
    /\ outcome = [p \in Calls |-> None]
    /\ error = [p \in Calls |-> None]
    /\ log = [p \in Calls |-> <<>>]
    /\ faults = 0
    /\ envSteps = 0
    /\ environments = NoEnvironments
    /\ processEnv = NoProcessEnv

\* what the backend may answer to a call whose faithful answer is `faithful`
Answers(op, faithful) ==
    {faithful} \cup (IF faults < MaxFaults THEN {Failed(op, s) : s \in FaultStatuses} ELSE {})

Called(p, op, answer, faithful) ==
    /\ log' = [log EXCEPT ![p] = Append(@, LogEntry(op, answer))]
    /\ faults' = IF answer # faithful THEN faults + 1 ELSE faults

Goto(p, label) ==
    /\ pc' = [pc EXCEPT ![p] = label]
    /\ UNCHANGED error

Reject(p, e) ==
    /\ pc' = [pc EXCEPT ![p] = "failed"]
    /\ error' = [error EXCEPT ![p] = Some(e)]

\* `return result`: the call resolves with the result it built (see Returned)
Resolve(p) ==
    /\ pc' = [pc EXCEPT ![p] = "done"]
    /\ UNCHANGED error

\* a caller invokes service.uploadFile(objectParams)
uploadFile(p) ==
    /\ pc[p] = "idle"
    /\ p = "u2" => pc["u1"] # "idle"
    /\ \E inp \in Inputs : input' = [input EXCEPT ![p] = Some(inp)]
    /\ Goto(p, IF provider = "r2" THEN "probe"
               ELSE IF provider = "firebase" THEN "save" ELSE "create")
    /\ UNCHANGED <<environments, processEnv, provider, store, probeExists, created, links, outcome, log,
                   faults, envSteps>>

\* a caller invokes service.uploadFile(objectParams) with file.data undefined:
\* buildImmutableKey (R2) and Buffer.from (Firebase) throw before the first
\* await; the Drive service streams the missing data as an empty body
uploadFileWithoutData(p) ==
    /\ pc[p] = "idle"
    /\ p = "u2" => pc["u1"] # "idle"
    /\ \E inp \in InputsWithoutData : input' = [input EXCEPT ![p] = Some(inp)]
    /\ IF provider = "r2" THEN Reject(p, InvalidDataArg)
       ELSE IF provider = "firebase" THEN Reject(p, InvalidArgType)
       ELSE Goto(p, "create")
    /\ UNCHANGED <<environments, processEnv, provider, store, probeExists, created, links, outcome, log,
                   faults, envSteps>>

\* R2 step 1: HEAD, short-circuit if the same content is already present
R2Probe(p) ==
    /\ provider = "r2"
    /\ pc[p] = "probe"
    /\ LET inp == Val(input[p])
           faithful == HeadObject(store, R2Key(inp))
       IN  \E head \in Answers("HeadObject", faithful) :
               LET o == ProbeOutcome(head, R2ContentSha256Hex(inp))
               IN  /\ Called(p, "HeadObject", head, faithful)
                   /\ IF o.throws
                      THEN Reject(p, o.err) /\ UNCHANGED probeExists
                      ELSE /\ probeExists' = [probeExists EXCEPT ![p] = o.exists]
                           /\ Goto(p, IF o.exists THEN "verify" ELSE "put")
    /\ UNCHANGED <<environments, processEnv, provider, store, input, created, links, outcome, envSteps>>

\* a PUT that is sent again after a 412
R2PutRetrying(p) ==
    /\ provider = "r2"
    /\ pc[p] = "put"
    /\ LET inp == Val(input[p])
           faithful == PutObject(store, R2Key(inp),
                                 Object(inp.data, Some(R2ContentSha256Hex(inp))))
       IN  \E put \in Answers("PutObject", faithful.answer) :
               /\ Called(p, "PutObject", put, faithful.answer)
               /\ store' = IF put = faithful.answer THEN faithful.store ELSE store
               /\ IF put.ok THEN Goto(p, "verify")
                  ELSE IF put.err.status = Some(412) /\ Len(log[p]) < 3 THEN Goto(p, "put")
                  ELSE Reject(p, put.err)
    /\ UNCHANGED <<environments, processEnv, provider, input, probeExists, created, links, outcome, envSteps>>

\* R2 step 2: PUT with IfNoneMatch "*", only if missing/mismatch; swallow 412
R2Put(p) ==
    /\ provider = "r2"
    /\ pc[p] = "put"
    /\ LET inp == Val(input[p])
           faithful == PutObject(store, R2Key(inp),
                                 Object(inp.data, Some(R2ContentSha256Hex(inp))))
       IN  \E put \in Answers("PutObject", faithful.answer) :
               LET o == PutOutcome(put)
               IN  /\ Called(p, "PutObject", put, faithful.answer)
                   /\ store' = IF put = faithful.answer THEN faithful.store ELSE store
                   /\ IF o.throws THEN Reject(p, o.err) ELSE Goto(p, "verify")
    /\ UNCHANGED <<environments, processEnv, provider, input, probeExists, created, links, outcome, envSteps>>

\* R2 step 3: build the result, verifyStorage (HEAD), check the outcome
R2Verify(p) ==
    /\ provider = "r2"
    /\ pc[p] = "verify"
    /\ LET inp == Val(input[p])
           fin == R2Result(inp)
           faithful == HeadObject(store, R2Key(inp))
       IN  IF fin.throws
           THEN Reject(p, fin.err) /\ UNCHANGED <<outcome, log, faults>>
           ELSE \E head \in Answers("HeadObject", faithful) :
                    LET v == verifyStorage(fin.value, {"r2"}, head)
                        e == PostVerify("r2", v)
                    IN  /\ Called(p, "HeadObject", head, faithful)
                        /\ outcome' = [outcome EXCEPT ![p] =
                                          IF v.throws THEN None ELSE Some(v.outcome)]
                        /\ IF e = None THEN Resolve(p)
                           ELSE Reject(p, Val(e))
    /\ UNCHANGED <<environments, processEnv, provider, store, input, probeExists, created, links, envSteps>>

(***************************************************************************)
(* FirebaseStorageService.uploadFile                                       *)
(***************************************************************************)
CharCode(c) == IF c \in B64Chars THEN B64Index(c) ELSE 64

\* crypto.createHash('md5').update(text).digest('hex'), a DigestBytes-octet stand-in
hashString(text) ==
    ToHex([i \in 1..DigestBytes |-> Mix([k \in 1..Len(text) |-> CharCode(text[k])], 11 * i)])

KeyOfName == [name \in Names |-> hashString(name)]

\* `${uploadPath}/${file.name}`
FbPath(inp) == UploadPath \o <<"/">> \o inp.name

\* integrity.split('-')[1] ? Buffer.from(..., 'base64').toString('hex') : undefined
FbSha256HexFor(data) ==
    LET parts == Split(computeSRI(data, SHA256), "-")
    IN  IF Len(parts) >= 2 /\ parts[2] # <<>>
        THEN Some(ToHex(FromBase64(parts[2]))) ELSE None

FbSha256HexOf == [data \in Contents |-> FbSha256HexFor(data)]

\* a result keyed by the content digest
FbResultForDigestKey(inp) ==
    LET filePath == FbPath(inp)
        url == <<"g","c","s","/">> \o Bucket \o <<"/">> \o filePath
    IN  finalizeResult(
            [url |-> url, downloadUrl |-> url, key |-> Sha256HexOf[inp.data],
             integrity |-> Some(IntegrityOf[inp.data]), sizeBytes |-> Some(Len(inp.data)),
             locator |-> Some([provider |-> "firebase", bucket |-> Bucket,
                               objectPath |-> filePath])],
            None, None)

FbResultFor(inp) ==
    LET filePath == FbPath(inp)
        url == <<"g","c","s","/">> \o Bucket \o <<"/">> \o filePath
    IN  finalizeResult(
            [url |-> url, downloadUrl |-> url, key |-> KeyOfName[inp.name],
             integrity |-> Some(IntegrityOf[inp.data]), sizeBytes |-> Some(Len(inp.data)),
             locator |-> Some([provider |-> "firebase", bucket |-> Bucket,
                               objectPath |-> filePath])],
            None, None)

FbResultOf == [inp \in Inputs |-> FbResultFor(inp)]
FbResult(inp) == FbResultOf[inp]

\* a save that is skipped when the object is present with the same sha256
FbSaveSkipping(p) ==
    /\ provider = "firebase"
    /\ pc[p] = "save"
    /\ LET inp == Val(input[p])
           present == /\ FbPath(inp) \in DOMAIN store
                      /\ store[FbPath(inp)].sha = FbSha256HexOf[inp.data]
       IN  IF present
           THEN Goto(p, "makePublic") /\ UNCHANGED <<store, log, faults>>
           ELSE \E ans \in Answers("save", Ok) :
                    /\ Called(p, "save", ans, Ok)
                    /\ store' = IF ans.ok
                                THEN With(store, FbPath(inp),
                                          Object(inp.data, FbSha256HexOf[inp.data]))
                                ELSE store
                    /\ IF ans.ok THEN Goto(p, "makePublic") ELSE Reject(p, ans.err)
    /\ UNCHANGED <<environments, processEnv, provider, input, probeExists, created, links, outcome, envSteps>>

\* await fileToStore.save(buffer, {metadata}): an unconditional write
FbSave(p) ==
    /\ provider = "firebase"
    /\ pc[p] = "save"
    /\ LET inp == Val(input[p])
       IN  \E ans \in Answers("save", Ok) :
               /\ Called(p, "save", ans, Ok)
               /\ store' = IF ans.ok
                           THEN With(store, FbPath(inp),
                                     Object(inp.data, FbSha256HexOf[inp.data]))
                           ELSE store
               /\ IF ans.ok THEN Goto(p, "makePublic") ELSE Reject(p, ans.err)
    /\ UNCHANGED <<environments, processEnv, provider, input, probeExists, created, links, outcome, envSteps>>

\* a makePublic whose failure removes the object that was saved
FbMakePublicRollingBack(p) ==
    /\ provider = "firebase"
    /\ pc[p] = "makePublic"
    /\ LET inp == Val(input[p])
           faithful == IF FbPath(inp) \in DOMAIN store THEN Ok
                       ELSE Failed("makePublic", Some(404))
       IN  \E ans \in Answers("makePublic", faithful) :
               /\ Called(p, "makePublic", ans, faithful)
               /\ store' = IF ans.ok THEN store ELSE Without(store, FbPath(inp))
               /\ IF ans.ok THEN Goto(p, "verifyExists") ELSE Reject(p, ans.err)
    /\ UNCHANGED <<environments, processEnv, provider, input, probeExists, created, links, outcome, envSteps>>

\* await fileToStore.makePublic()
FbMakePublic(p) ==
    /\ provider = "firebase"
    /\ pc[p] = "makePublic"
    /\ LET inp == Val(input[p])
           faithful == IF FbPath(inp) \in DOMAIN store THEN Ok
                       ELSE Failed("makePublic", Some(404))
       IN  \E ans \in Answers("makePublic", faithful) :
               /\ Called(p, "makePublic", ans, faithful)
               /\ IF ans.ok THEN Goto(p, "verifyExists") ELSE Reject(p, ans.err)
    /\ UNCHANGED <<environments, processEnv, provider, store, input, probeExists, created, links, outcome, envSteps>>

\* build the result; verifyStorage up to `await file.exists()`
FbVerifyExists(p) ==
    /\ provider = "firebase"
    /\ pc[p] = "verifyExists"
    /\ LET inp == Val(input[p])
           fin == FbResult(inp)
           faithful == [ok |-> TRUE, exists |-> FbPath(inp) \in DOMAIN store]
       IN  IF fin.throws
           THEN Reject(p, fin.err) /\ UNCHANGED <<outcome, log, faults>>
           ELSE \E ex \in Answers("exists", faithful) :
                    LET v == verifyFirebaseExists(TRUE, ex)
                    IN  /\ Called(p, "exists", ex, faithful)
                        /\ IF "continue" \in DOMAIN v
                           THEN Goto(p, "verifyMeta") /\ UNCHANGED outcome
                           ELSE /\ outcome' = [outcome EXCEPT ![p] =
                                                  IF v.throws THEN None ELSE Some(v.outcome)]
                                /\ Reject(p, Val(PostVerify("firebase", v)))
    /\ UNCHANGED <<environments, processEnv, provider, store, input, probeExists, created, links, envSteps>>

\* verifyStorage from `await file.getMetadata()` on; then the checks on the outcome
FbVerifyMeta(p) ==
    /\ provider = "firebase"
    /\ pc[p] = "verifyMeta"
    /\ LET inp == Val(input[p])
           fin == FbResult(inp)
           exp == Expected(fin.value)
           faithful == IF FbPath(inp) \in DOMAIN store THEN MetaOk(store[FbPath(inp)])
                       ELSE Failed("getMetadata", Some(404))
       IN  \E meta \in Answers("getMetadata", faithful) :
               LET v == verifyFirebaseMeta(meta, exp.sha, exp.size)
                   e == PostVerify("firebase", v)
               IN  /\ Called(p, "getMetadata", meta, faithful)
                   /\ outcome' = [outcome EXCEPT ![p] =
                                     IF v.throws THEN None ELSE Some(v.outcome)]
                   /\ IF e = None THEN Resolve(p) ELSE Reject(p, Val(e))
    /\ UNCHANGED <<environments, processEnv, provider, store, input, probeExists, created, links, envSteps>>

(***************************************************************************)
(* GoogleDriveStorageService.uploadFile                                    *)
(***************************************************************************)
\* the id Drive gives the file a call creates
FileId(p) == IF p = "u1" THEN <<"f","1">> ELSE <<"f","2">>

\* what generatePublicUrlForDrive returns when nothing fails
LinksFor(id) ==
    [webViewLink |-> <<"v","i","e","w","/">> \o id,
     webContentLink |-> <<"d","l","/">> \o id,
     publicUrl |-> <<"u","c","/">> \o id]

DriveResult(inp, id, lnk) ==
    finalizeResult(
        [downloadUrl |-> IF lnk = None THEN <<>> ELSE Val(lnk).webContentLink,
         url |-> IF lnk = None THEN <<>> ELSE Val(lnk).publicUrl,
         key |-> KeyOfName[inp.name],
         integrity |-> Some(IntegrityOf[inp.data]), sizeBytes |-> Some(Len(inp.data)),
         locator |-> Some([provider |-> "drive", fileId |-> id,
                           filePath |-> ParentId \o <<"/">> \o inp.name,
                           shouldSupportSharedDrives |-> FALSE])],
        None, None)

\* const resp = await drive.files.create(...)
DriveCreate(p) ==
    /\ provider = "drive"
    /\ pc[p] = "create"
    /\ LET inp == Val(input[p])
       IN  \E ans \in Answers("files.create", Ok) :
               /\ Called(p, "files.create", ans, Ok)
               /\ store' = IF ans.ok THEN With(store, FileId(p), Object(BodyOf(inp), None))
                           ELSE store
               /\ created' = [created EXCEPT ![p] = IF ans.ok THEN Some(FileId(p)) ELSE None]
               /\ IF ans.ok THEN Goto(p, "permission") ELSE Reject(p, ans.err)
    /\ UNCHANGED <<environments, processEnv, provider, input, probeExists, links, outcome, envSteps>>

\* a permission grant whose failure is rethrown
DrivePermissionPropagating(p) ==
    /\ provider = "drive"
    /\ pc[p] = "permission"
    /\ LET faithful == IF Val(created[p]) \in DOMAIN store THEN Ok
                       ELSE Failed("permissions.create", Some(404))
       IN  \E ans \in Answers("permissions.create", faithful) :
               /\ Called(p, "permissions.create", ans, faithful)
               /\ IF ans.ok THEN Goto(p, "links") ELSE Reject(p, ans.err)
    /\ UNCHANGED <<environments, processEnv, provider, store, input, probeExists, created, links, outcome, envSteps>>

\* generatePublicUrlForDrive: await drive.permissions.create(...); a failure is
\* caught, logged, and null is returned
DrivePermission(p) ==
    /\ provider = "drive"
    /\ pc[p] = "permission"
    /\ LET faithful == IF Val(created[p]) \in DOMAIN store THEN Ok
                       ELSE Failed("permissions.create", Some(404))
       IN  \E ans \in Answers("permissions.create", faithful) :
               /\ Called(p, "permissions.create", ans, faithful)
               /\ Goto(p, IF ans.ok THEN "links" ELSE "verify")
    /\ UNCHANGED <<environments, processEnv, provider, store, input, probeExists, created, links, outcome, envSteps>>

\* generatePublicUrlForDrive: await drive.files.get({fields: links}); same catch
DriveLinks(p) ==
    /\ provider = "drive"
    /\ pc[p] = "links"
    /\ LET faithful == IF Val(created[p]) \in DOMAIN store THEN Ok
                       ELSE Failed("files.get:links", Some(404))
       IN  \E ans \in Answers("files.get:links", faithful) :
               /\ Called(p, "files.get:links", ans, faithful)
               /\ links' = [links EXCEPT ![p] =
                               IF ans.ok THEN Some(LinksFor(Val(created[p]))) ELSE None]
               /\ Goto(p, "verify")
    /\ UNCHANGED <<environments, processEnv, provider, store, input, probeExists, created, outcome, envSteps>>

\* build the result, verifyStorage (files.get of size), check the outcome
DriveVerify(p) ==
    /\ provider = "drive"
    /\ pc[p] = "verify"
    /\ LET id == Val(created[p])
           fin == DriveResult(Val(input[p]), id, links[p])
           faithful == IF id \in DOMAIN store THEN MetaOk(store[id])
                       ELSE Failed("files.get:size", Some(404))
       IN  IF ~HasData(Val(input[p]))
           THEN Reject(p, InvalidArgType) /\ UNCHANGED <<outcome, log, faults>>
           ELSE IF fin.throws
           THEN Reject(p, fin.err) /\ UNCHANGED <<outcome, log, faults>>
           ELSE \E file \in Answers("files.get:size", faithful) :
                    LET v == verifyStorage(fin.value, {"drive"}, file)
                        e == PostVerify("drive", v)
                    IN  /\ Called(p, "files.get:size", file, faithful)
                        /\ outcome' = [outcome EXCEPT ![p] =
                                          IF v.throws THEN None ELSE Some(v.outcome)]
                        /\ IF e = None THEN Resolve(p) ELSE Reject(p, Val(e))
    /\ UNCHANGED <<environments, processEnv, provider, store, input, probeExists, created, links, envSteps>>

\* the StorageResult a call resolved with ({} if it has not, or rejected)
Returned(p) ==
    IF pc[p] # "done" THEN None
    ELSE IF provider = "r2" THEN Some(R2Result(Val(input[p])).value)
    ELSE IF provider = "firebase" THEN Some(FbResult(Val(input[p])).value)
    ELSE Some(DriveResult(Val(input[p]), Val(created[p]), links[p]).value)

(***************************************************************************)
(* Other clients of the same backend                                       *)
(***************************************************************************)
\* the locator ids the calls made so far write to and verify
Ids ==
    DOMAIN store \cup
    {IF provider = "r2" THEN R2Key(Val(input[p])) ELSE FbPath(Val(input[p])) :
        p \in {q \in Calls : provider # "drive" /\ input[q] # None}}

Active == \E p \in Calls : pc[p] \notin {"idle", "done", "failed"}

OtherObjects ==
    {Object(d, s) : d \in Contents, s \in {None} \cup {Some(Sha256HexOf[c]) : c \in Contents}}

\* another client writes an object unconditionally (direct upload, other tool)
OtherWrite ==
    /\ Active
    /\ envSteps < MaxEnvSteps
    /\ \E k \in Ids, o \in OtherObjects : store' = With(store, k, o)
    /\ envSteps' = envSteps + 1
    /\ UNCHANGED <<environments, processEnv, provider, pc, input, probeExists, created, links, outcome,
                   error, log, faults>>

\* another caller deletes an object
OtherDelete ==
    /\ Active
    /\ envSteps < MaxEnvSteps
    /\ \E k \in DOMAIN store : store' = Without(store, k)
    /\ envSteps' = envSteps + 1
    /\ UNCHANGED <<environments, processEnv, provider, pc, input, probeExists, created, links, outcome,
                   error, log, faults>>

\* the steps of one uploadFile call
Upload(p) ==
    \/ uploadFile(p)
    \/ R2Probe(p) \/ R2Put(p) \/ R2Verify(p)
    \/ FbSave(p) \/ FbMakePublic(p) \/ FbVerifyExists(p) \/ FbVerifyMeta(p)
    \/ DriveCreate(p) \/ DrivePermission(p) \/ DriveLinks(p) \/ DriveVerify(p)

\* one uploadFile call on any of the three services, the backend shared with
\* other clients
Next ==
    \/ Upload("u1")
    \/ OtherWrite
    \/ OtherDelete

Spec == Init /\ [][Next]_vars

\* two concurrent uploadFile calls on the R2 service, the only clients of a
\* backend that may fail
InitR2 == Init /\ provider = "r2"

NextR2 == \E p \in Calls : uploadFile(p) \/ R2Probe(p) \/ R2Put(p) \/ R2Verify(p)

SpecR2 == InitR2 /\ [][NextR2]_vars

\* two uploadFile calls on one service, the only clients of a backend that
\* answers faithfully
InitKeys ==
    /\ provider \in Providers
    /\ store = EmptyStore
    /\ pc = [p \in Calls |-> "idle"]
    /\ input = [p \in Calls |-> None]
    /\ probeExists = [p \in Calls |-> FALSE]
    /\ created = [p \in Calls |-> None]
    /\ links = [p \in Calls |-> None]
    /\ outcome = [p \in Calls |-> None]
    /\ error = [p \in Calls |-> None]
    /\ log = [p \in Calls |-> <<>>]
    /\ faults = MaxFaults
    /\ envSteps = 0
    /\ environments = NoEnvironments
    /\ processEnv = NoProcessEnv

NextKeys == \E p \in Calls : Upload(p)

SpecKeys == InitKeys /\ [][NextKeys]_vars

\* two concurrent uploadFile calls on the R2 service, on a backend that answers
\* faithfully and whose bucket already holds objects written by other clients
\* under some of the keys
R2Keys == {R2Key(inp) : inp \in Inputs}

InitR2Seeded ==
    /\ provider = "r2"
    /\ store \in UNION {[K -> OtherObjects] : K \in SUBSET R2Keys}
    /\ pc = [p \in Calls |-> "idle"]
    /\ input = [p \in Calls |-> None]
    /\ probeExists = [p \in Calls |-> FALSE]
    /\ created = [p \in Calls |-> None]
    /\ links = [p \in Calls |-> None]
    /\ outcome = [p \in Calls |-> None]
    /\ error = [p \in Calls |-> None]
    /\ log = [p \in Calls |-> <<>>]
    /\ faults = MaxFaults
    /\ envSteps = 0
    /\ environments = NoEnvironments
    /\ processEnv = NoProcessEnv

SpecR2Seeded == InitR2Seeded /\ [][NextR2]_vars

\* one uploadFile call on any service, with or without file.data, on a backend
\* that may fail
NextAnyInput ==
    \/ uploadFileWithoutData("u1")
    \/ Upload("u1")

SpecAnyInput == Init /\ [][NextAnyInput]_vars

(***************************************************************************)
(* A caller invokes verifyStorage(resultOrLocator, ctx) on its own          *)
(***************************************************************************)
Tags == Providers \cup {"mystery"}                 \* locator.provider, as any

VerifyId == <<"k">>                                \* key / objectPath / fileId

LocatorFor(tag) ==
    IF tag = "r2" THEN [provider |-> tag, bucket |-> Bucket, key |-> VerifyId]
    ELSE IF tag = "firebase"
    THEN [provider |-> tag, bucket |-> Bucket, objectPath |-> VerifyId]
    ELSE IF tag = "drive"
    THEN [provider |-> tag, fileId |-> VerifyId, shouldSupportSharedDrives |-> FALSE]
    ELSE [provider |-> tag]

\* result.integrity: absent, the SRI of a content, an SRI with an empty digest,
\* a string with no '-'
Integrities ==
    {None} \cup {Some(IntegrityOf[c]) : c \in Contents}
           \cup {Some(<<"s","h","a","2","5","6","-">>), Some(<<"s","h","a","2","5","6">>)}

\* result.sizeBytes
Sizes == {None} \cup {Some(Len(c)) : c \in Contents}

\* a bare locator, or a StorageResult holding it
VerifyArgs(tag) ==
    {LocatorFor(tag)} \cup
    {[url |-> <<>>, downloadUrl |-> <<>>, key |-> VerifyId, integrity |-> i,
      sizeBytes |-> z, locator |-> Some(LocatorFor(tag))] :
        i \in Integrities, z \in Sizes}

InitVerify ==
    /\ provider \in Tags
    /\ store \in {EmptyStore} \cup {With(EmptyStore, VerifyId, o) : o \in OtherObjects}
    /\ pc = [p \in Calls |-> "idle"]
    /\ input = [p \in Calls |-> None]
    /\ probeExists = [p \in Calls |-> FALSE]
    /\ created = [p \in Calls |-> None]
    /\ links = [p \in Calls |-> None]
    /\ outcome = [p \in Calls |-> None]
    /\ error = [p \in Calls |-> None]
    /\ log = [p \in Calls |-> <<>>]
    /\ faults = 0
    /\ envSteps = 0
    /\ environments = NoEnvironments
    /\ processEnv = NoProcessEnv

\* verifyStorage sends a call to the backend: the expected digest was derived
\* and the context holds the client of the locator's provider
Sends(arg, ctx) ==
    /\ ~Expected(arg).throws
    /\ LocatorOf(arg).provider \in Providers \cap ctx

\* answers standing for the calls that are not sent
NotSent == [ok |-> TRUE, ex |-> [ok |-> TRUE, exists |-> FALSE], meta |-> Ok]

Settle(p, v) ==
    /\ outcome' = [outcome EXCEPT ![p] = IF v.throws THEN None ELSE Some(v.outcome)]
    /\ IF v.throws THEN Reject(p, v.err) ELSE Resolve(p)

\* verifyStorage up to its first await
verifyStorageCall(p) ==
    /\ p = "u1"
    /\ pc[p] = "idle"
    /\ \E arg \in VerifyArgs(provider), ctx \in {{}, {provider}} :
           /\ input' = [input EXCEPT ![p] = Some([arg |-> arg, ctx |-> ctx])]
           /\ IF Sends(arg, ctx)
              THEN /\ Goto(p, IF provider = "r2" THEN "vhead"
                              ELSE IF provider = "firebase" THEN "vexists" ELSE "vget")
                   /\ UNCHANGED outcome
              ELSE Settle(p, verifyStorage(arg, ctx, NotSent))
    /\ UNCHANGED <<environments, processEnv, provider, store, probeExists, created, links, log, faults, envSteps>>

\* a verification that removes an object it finds
VerifyHeadRemoving(p) ==
    /\ pc[p] = "vhead"
    /\ LET a == Val(input[p])
           faithful == HeadObject(store, LocatorOf(a.arg).key)
       IN  \E head \in Answers("HeadObject", faithful) :
               /\ Called(p, "HeadObject", head, faithful)
               /\ store' = IF head.ok THEN Without(store, LocatorOf(a.arg).key) ELSE store
               /\ Settle(p, verifyStorage(a.arg, a.ctx, head))
    /\ UNCHANGED <<environments, processEnv, provider, input, probeExists, created, links, envSteps>>

\* verifyR2: await s3.send(new HeadObjectCommand(...))
VerifyHead(p) ==
    /\ pc[p] = "vhead"
    /\ LET a == Val(input[p])
           faithful == HeadObject(store, LocatorOf(a.arg).key)
       IN  \E head \in Answers("HeadObject", faithful) :
               /\ Called(p, "HeadObject", head, faithful)
               /\ Settle(p, verifyStorage(a.arg, a.ctx, head))
    /\ UNCHANGED <<environments, processEnv, provider, store, input, probeExists, created, links, envSteps>>

\* verifyFirebase: await file.exists()
VerifyExists(p) ==
    /\ pc[p] = "vexists"
    /\ LET a == Val(input[p])
           faithful == [ok |-> TRUE, exists |-> LocatorOf(a.arg).objectPath \in DOMAIN store]
       IN  \E ex \in Answers("exists", faithful) :
               /\ Called(p, "exists", ex, faithful)
               /\ IF ex.ok /\ ex.exists
                  THEN Goto(p, "vmeta") /\ UNCHANGED outcome
                  ELSE Settle(p, verifyStorage(a.arg, a.ctx, [ex |-> ex, meta |-> Ok]))
    /\ UNCHANGED <<environments, processEnv, provider, store, input, probeExists, created, links, envSteps>>

\* verifyFirebase: await file.getMetadata()
VerifyMeta(p) ==
    /\ pc[p] = "vmeta"
    /\ LET a == Val(input[p])
           id == LocatorOf(a.arg).objectPath
           faithful == IF id \in DOMAIN store THEN MetaOk(store[id])
                       ELSE Failed("getMetadata", Some(404))
       IN  \E meta \in Answers("getMetadata", faithful) :
               /\ Called(p, "getMetadata", meta, faithful)
               /\ Settle(p, verifyStorage(a.arg, a.ctx,
                                          [ex |-> [ok |-> TRUE, exists |-> TRUE],
                                           meta |-> meta]))
    /\ UNCHANGED <<environments, processEnv, provider, store, input, probeExists, created, links, envSteps>>

\* verifyDrive: await drive.files.get({fileId, fields: 'id, size, md5Checksum'})
VerifyGet(p) ==
    /\ pc[p] = "vget"
    /\ LET a == Val(input[p])
           id == LocatorOf(a.arg).fileId
           faithful == IF id \in DOMAIN store THEN MetaOk(store[id])
                       ELSE Failed("files.get:size", Some(404))
       IN  \E file \in Answers("files.get:size", faithful) :
               /\ Called(p, "files.get:size", file, faithful)
               /\ Settle(p, verifyStorage(a.arg, a.ctx, file))
    /\ UNCHANGED <<environments, processEnv, provider, store, input, probeExists, created, links, envSteps>>

Verify(p) ==
    \/ verifyStorageCall(p)
    \/ VerifyHead(p) \/ VerifyExists(p) \/ VerifyMeta(p) \/ VerifyGet(p)

\* one verifyStorage call, on a backend that may fail and that another caller
\* may delete from
NextVerify ==
    \/ Verify("u1")
    \/ OtherDelete

SpecVerify == InitVerify /\ [][NextVerify]_vars

(***************************************************************************)
(* A caller invokes deleteFileFromStorage(resultOrLocator, ctx)             *)
(***************************************************************************)
Resolved == [throws |-> FALSE]

MissingClientForDelete(client) ==
    ErrorOf(<<"Missing", client, "client", "for", "deleteFileFromStorage">>)

UnknownProviderForDelete ==
    ErrorOf(<<"Unknown", "provider", "for", "deleteFileFromStorage">>)

\* S3 DeleteObject: 204 whether or not the key exists
DeleteObject(st, key) == [answer |-> Ok, store |-> Without(st, key)]

\* GCS objects.delete / Drive files.delete: 404 for a missing object
FileDelete(op, st, id) ==
    IF id \in DOMAIN st
    THEN [answer |-> Ok, store |-> Without(st, id)]
    ELSE [answer |-> Failed(op, Some(404)), store |-> st]

\* deleteR2 reporting a missing client as nothing to delete
deleteR2Lenient(hasClient, del) ==
    IF ~hasClient THEN Resolved
    ELSE IF del.ok THEN Resolved ELSE Throws(del.err)

\* deleteR2, given the answer of the DeleteObject it sends
deleteR2(hasClient, del) ==
    IF ~hasClient THEN Throws(MissingClientForDelete("S3"))
    ELSE IF del.ok THEN Resolved ELSE Throws(del.err)

\* deleteFirebase, given the answer to file.delete({ ignoreNotFound: true }):
\* with that option the client library resolves on a 404
deleteFirebase(hasClient, del) ==
    IF ~hasClient THEN Throws(MissingClientForDelete("GCS"))
    ELSE IF del.ok THEN Resolved
    ELSE IF del.err.status = Some(404) THEN Resolved
    ELSE Throws(del.err)

\* deleteDrive rethrowing every error of files.delete
deleteDriveStrict(hasClient, del) ==
    IF ~hasClient THEN Throws(MissingClientForDelete("Drive"))
    ELSE IF del.ok THEN Resolved ELSE Throws(del.err)

\* deleteDrive, given the answer of the files.delete it sends
deleteDrive(hasClient, del) ==
    IF ~hasClient THEN Throws(MissingClientForDelete("Drive"))
    ELSE IF del.ok THEN Resolved
    ELSE IF del.err.status = Some(404) THEN Resolved
    ELSE Throws(del.err)

\* deleteFileFromStorage: dispatch on locator.provider
deleteFileFromStorage(resultOrLocator, ctx, answer) ==
    LET locator == LocatorOf(resultOrLocator)
    IN  IF locator.provider = "r2" THEN deleteR2("r2" \in ctx, answer)
        ELSE IF locator.provider = "firebase" THEN deleteFirebase("firebase" \in ctx, answer)
        ELSE IF locator.provider = "drive" THEN deleteDrive("drive" \in ctx, answer)
        ELSE Throws(UnknownProviderForDelete)

\* a bare locator, or a StorageResult holding it
DeleteArgs(tag) ==
    {LocatorFor(tag)} \cup
    {[url |-> <<>>, downloadUrl |-> <<>>, key |-> VerifyId,
      integrity |-> Some(IntegrityOf[c]), sizeBytes |-> Some(Len(c)),
      locator |-> Some(LocatorFor(tag))] : c \in Contents}

DeleteSettle(p, v) == IF v.throws THEN Reject(p, v.err) ELSE Resolve(p)

\* deleteFileFromStorage up to its first await
deleteFileFromStorageCall(p) ==
    /\ pc[p] = "idle"
    /\ p = "u2" => pc["u1"] # "idle"
    /\ \E arg \in DeleteArgs(provider), ctx \in {{}, {provider}} :
           /\ input' = [input EXCEPT ![p] = Some([arg |-> arg, ctx |-> ctx])]
           /\ IF LocatorOf(arg).provider \in Providers \cap ctx
              THEN Goto(p, IF provider = "r2" THEN "dobject"
                           ELSE IF provider = "firebase" THEN "dfile" ELSE "ddrive")
              ELSE DeleteSettle(p, deleteFileFromStorage(arg, ctx, Ok))
    /\ UNCHANGED <<environments, processEnv, provider, store, probeExists, created, links, outcome, log,
                   faults, envSteps>>

\* the await of the backend's delete call; a call answered with an injected
\* error leaves the object where it is
DeleteStep(p, op, faithful) ==
    /\ LET a == Val(input[p])
       IN  \E del \in Answers(op, faithful.answer) :
               /\ Called(p, op, del, faithful.answer)
               /\ store' = IF del = faithful.answer THEN faithful.store ELSE store
               /\ DeleteSettle(p, deleteFileFromStorage(a.arg, a.ctx, del))
    /\ UNCHANGED <<environments, processEnv, provider, input, probeExists, created, links, outcome, envSteps>>

\* deleteR2: await s3.send(new DeleteObjectCommand(...))
DeleteR2(p) ==
    /\ pc[p] = "dobject"
    /\ DeleteStep(p, "DeleteObject", DeleteObject(store, VerifyId))

\* deleteFirebase: await file.delete({ ignoreNotFound: true })
DeleteFirebase(p) ==
    /\ pc[p] = "dfile"
    /\ DeleteStep(p, "delete", FileDelete("delete", store, VerifyId))

\* deleteDrive: await drive.files.delete({ fileId, supportsAllDrives })
DeleteDrive(p) ==
    /\ pc[p] = "ddrive"
    /\ DeleteStep(p, "files.delete", FileDelete("files.delete", store, VerifyId))

Delete(p) ==
    \/ deleteFileFromStorageCall(p)
    \/ DeleteR2(p) \/ DeleteFirebase(p) \/ DeleteDrive(p)

\* two deleteFileFromStorage calls on the same locator, one after the other or
\* overlapping, on a backend that may fail
NextDelete == \E p \in Calls : Delete(p)

SpecDelete == InitVerify /\ [][NextDelete]_vars

(***************************************************************************)
(* The digest utilities and finalizeResult, called on their own             *)
(***************************************************************************)
Octets == {0, 1, 255}

\* Buffers of up to two octets
ByteStrings ==
    {<<>>} \cup {<<a>> : a \in Octets} \cup {<<a, b>> : a \in Octets, b \in Octets}

\* strings that are not digest tags: unknown algorithm, no '-', no digest,
\* characters outside base64, a digest of another algorithm's length
MalformedTags ==
    {<<"m","d","6","-","b","a","d">>,
     SHA256,
     SHA256 \o <<"-">>,
     SHA256 \o <<"-", "!", "!">>,
     SHA256 \o <<"-">> \o ToBase64(Hash(SHA384, <<>>))}

DigestTags == {computeSRI(d, a) : d \in ByteStrings, a \in Algos} \cup MalformedTags

\* <algo>-<base64> with algo in sha256 / sha384 / sha512 and a digest of the
\* algorithm's size
WellFormedTag(t) ==
    /\ ValidSRI(t)
    /\ Len(FromBase64(SubSeq(t, 8, Len(t)))) = DigestSize(SubSeq(t, 1, 6))

\* the arguments of finalizeResult
ResultFields ==
    [url : {<<"u">>}, downloadUrl : {<<"d">>}, key : {<<"k">>},
     integrity : {None, Some(<<>>), Some(<<"m","d","6","-","b","a","d">>),
                  Some(computeSRI(<<1>>, SHA256))},
     sizeBytes : {None, Some(1)},
     locator : {None, Some(LocatorFor("r2"))}]

ResultData == {None, Some(<<>>), Some(<<0, 255>>)}

Returned1(p, fn, args, r) ==
    /\ input' = [input EXCEPT ![p] = Some([fn |-> fn, args |-> args])]
    /\ outcome' = [outcome EXCEPT ![p] = IF r.throws THEN None ELSE Some(r.value)]
    /\ IF r.throws THEN Reject(p, r.err) ELSE Resolve(p)
    /\ UNCHANGED <<environments, processEnv, provider, store, probeExists, created, links, log, faults, envSteps>>

computeSRICall(p) ==
    /\ pc[p] = "idle"
    /\ \E d \in ByteStrings, a \in Algos :
           Returned1(p, "computeSRI", [data |-> d, algo |-> a],
                     [throws |-> FALSE, value |-> computeSRI(d, a)])

sriToHexCall(p) ==
    /\ pc[p] = "idle"
    /\ \E t \in DigestTags : Returned1(p, "sriToHex", [sri |-> t], sriToHex(t))

\* base64ToHex(parseSRI(sri).b64)
base64ToHexCall(p) ==
    /\ pc[p] = "idle"
    /\ \E t \in DigestTags :
           Returned1(p, "base64ToHex", [sri |-> t],
                     IF parseSRI(t).b64 = None
                     THEN [throws |-> TRUE, err |-> InvalidArgType]
                     ELSE [throws |-> FALSE, value |-> base64ToHex(Val(parseSRI(t).b64))])

finalizeResultCall(p) ==
    /\ pc[p] = "idle"
    /\ \E f \in ResultFields, d \in ResultData, a \in {None} \cup {Some(x) : x \in Algos} :
           Returned1(p, "finalizeResult", [fields |-> f, data |-> d, algo |-> a],
                     finalizeResult(f, d, a))

\* the arguments of buildImmutableKey: upload paths with and without runs of
\* slashes, file names with and without an extension
KeyUploadPaths ==
    {None, Some(<<"u","p">>), Some(<<"a","/","/","b","/">>), Some(<<"/","/","/">>)}
KeyFilenames ==
    {<<"a",".","p","n","g">>, <<"n","o","e","x","t">>, <<".","e","n","v">>,
     <<"a",".","t","a","r",".","g","z">>, <<"a",".">>}
Assets == <<"a","s","s","e","t","s">>

\* buildImmutableKey({ uploadPath = "assets", filename, data, useShort = true })
buildImmutableKeyCall(p) ==
    /\ pc[p] = "idle"
    /\ \E up \in KeyUploadPaths, f \in KeyFilenames, d \in ByteStrings,
          short \in {None, Some(TRUE), Some(FALSE)} :
           Returned1(p, "buildImmutableKey",
                     [uploadPath |-> up, filename |-> f, data |-> d, useShort |-> short],
                     [throws |-> FALSE,
                      value |-> buildImmutableKey(IF up = None THEN Assets ELSE Val(up), f, d,
                                                  IF short = None THEN TRUE ELSE Val(short))])

NextDigest ==
    \/ buildImmutableKeyCall("u1")
    \/ computeSRICall("u1")
    \/ sriToHexCall("u1")
    \/ base64ToHexCall("u1")
    \/ finalizeResultCall("u1")

SpecDigest == InitKeys /\ [][NextDigest]_vars

(***************************************************************************)
(* EnvironmentRegister                                                     *)
(***************************************************************************)
ConfigKeys == {"r2_bucket", "r2_access_key_secret"}
Values == {"a", "b"}
OptionalValues == {None} \cup {Some(v) : v \in Values}

\* Partial<EnvironmentConfig>: any of the keys, each with a value or undefined
Configs == UNION {[S -> OptionalValues] : S \in SUBSET ConfigKeys}

\* this.environments[name]
getEnvironment(name) ==
    IF name \in DOMAIN environments THEN environments[name] ELSE None

\* { ...a, ...b }: every own property of b, then the properties of a that b lacks
Spread(a, b) ==
    [k \in DOMAIN a \cup DOMAIN b |-> IF k \in DOMAIN b THEN b[k] ELSE a[k]]

\* a ?? b
Coalesce(a, b) == IF a # None THEN a ELSE b

\* the map loadFromProcessEnv builds: every key is an own property, undefined
\* when its variable is unset
ProcessEnvMap ==
    [r2_bucket |-> processEnv["R2_BUCKET"],
     r2_access_key_secret |->
         Coalesce(processEnv["R2_SECRET"], processEnv["R2_ACCESS_KEY_SECRET"])]

uploadVars == <<provider, store, pc, input, probeExists, created, links, outcome,
                error, log, faults, envSteps>>

registerEnvironment(name, value) ==
    /\ environments' = Spread(environments, name :> Some(value))
    /\ UNCHANGED <<processEnv, uploadVars>>

registerEnvironments(configs) ==
    /\ environments' = Spread(environments, configs)
    /\ UNCHANGED <<processEnv, uploadVars>>

loadFromProcessEnv ==
    /\ environments' = Spread(environments, ProcessEnvMap)
    /\ UNCHANGED <<processEnv, uploadVars>>

\* the process sets or unsets an environment variable
SetProcessEnv ==
    /\ \E v \in EnvVars, x \in OptionalValues : processEnv' = [processEnv EXCEPT ![v] = x]
    /\ UNCHANGED <<environments, uploadVars>>

NextRegister ==
    \/ \E name \in ConfigKeys, value \in Values : registerEnvironment(name, value)
    \/ \E configs \in Configs : registerEnvironments(configs)
    \/ loadFromProcessEnv
    \/ SetProcessEnv

SpecRegister == InitR2 /\ [][NextRegister]_vars

(***************************************************************************)
(* Properties                                                              *)
(***************************************************************************)
LastCall(p) == log[p][Len(log[p])]
Failure(e) == ~e.answer.ok
Status(e) == e.answer.err.status
Finished(p) == pc[p] \in {"done", "failed"}
Puts(p) == {i \in DOMAIN log[p] : log[p][i].op = "PutObject"}

\* no injected error and no other client so far
Faithful == faults = 0 /\ envSteps = 0

SameInput == input["u1"] # None /\ input["u1"] = input["u2"]

\* the R2 call ended in its verification: the last call it sent is the verify HEAD
R2Verified(p) == Finished(p) /\ Len(log[p]) >= 2 /\ LastCall(p).op = "HeadObject"

\* the last HEAD answered an object whose stored sha256 and ContentLength are
\* those of the bytes supplied
HeadGood(p) ==
    LET h == LastCall(p).answer
        data == Val(input[p]).data
    IN  /\ h.ok
        /\ h.Metadata = Some(sha256Hex(data))
        /\ h.ContentLength = Some(Len(data))

\* C1: an R2 uploadFile call returns a result only if its verification HEAD
\* reported the object present with stored sha256 equal to the hex digest of the
\* bytes supplied and ContentLength equal to their length; if the verification
\* reports otherwise the call rejects and returns nothing.
C1_R2ReturnsOnlyVerified ==
    provider = "r2" =>
        \A p \in Calls :
            /\ pc[p] = "done" => R2Verified(p) /\ Returned(p) # None /\ error[p] = None
            /\ R2Verified(p) => (pc[p] = "done" <=> HeadGood(p))
            /\ pc[p] = "failed" => Returned(p) = None /\ error[p] # None

C1_ResolvedAfterWrite ==
    \E p \in Calls :
        /\ provider = "r2" /\ pc[p] = "done" /\ Len(log[p]) = 3
        /\ log[p][2].answer.ok /\ HeadGood(p)

Got412(p) ==
    \E i \in Puts(p) : Failure(log[p][i]) /\ Status(log[p][i]) = Some(412)

\* C2: a PUT answered 412 is not a failure of the upload: the call sends no other
\* PUT and no second probe, goes on to exactly one verification HEAD, never
\* rejects with the 412, and resolves only if that verification passes.
C2_PreconditionFailedGoesToVerify ==
    provider = "r2" =>
        \A p \in Calls :
            Got412(p) =>
                /\ Puts(p) = {2}
                /\ Len(log[p]) <= 3
                /\ Len(log[p]) = 2 => pc[p] = "verify"
                /\ Len(log[p]) = 3 => LastCall(p).op = "HeadObject" /\ Finished(p)
                /\ error[p] # Some(log[p][2].answer.err)
                /\ Finished(p) => (pc[p] = "done" <=> HeadGood(p))

C2_ResolvedAfter412 ==
    \E p \in Calls : provider = "r2" /\ Got412(p) /\ pc[p] = "done"

\* the PUTs that created the object
CreatingPuts == {<<p, i>> \in Calls \X (1..3) : i \in Puts(p) /\ log[p][i].answer.ok}

SameKeyAndIntegrity ==
    /\ Val(Returned("u1")).key = Val(Returned("u2")).key
    /\ Val(Returned("u1")).integrity = Val(Returned("u2")).integrity

\* C3: when two concurrent R2 uploads of the same bytes and name run against a
\* faithful backend, at most one PUT creates the object, neither call rejects
\* (the loser's 412 is not surfaced), and the two results carry the same key and
\* the same integrity.
C3_ConcurrentIdenticalUploads ==
    (provider = "r2" /\ Faithful /\ SameInput) =>
        /\ Cardinality(CreatingPuts) <= 1
        /\ \A p \in Calls : pc[p] # "failed" /\ error[p] = None
        /\ (pc["u1"] = "done" /\ pc["u2"] = "done") => SameKeyAndIntegrity

C3_BothResolvedOne412 ==
    /\ provider = "r2" /\ Faithful /\ SameInput
    /\ pc["u1"] = "done" /\ pc["u2"] = "done"
    /\ \E p \in Calls : Got412(p)
    /\ Cardinality(CreatingPuts) = 1

\* the second call probes after the first has returned
SecondProbesAfterFirst ==
    /\ provider = "r2" /\ Faithful /\ SameInput
    /\ pc["u1"] = "done"
    /\ R2Probe("u2")
    /\ faults' = 0

\* C4: when the same bytes and name are uploaded twice in sequence to a faithful,
\* initially empty R2 backend, the second call's probe finds the object and skips
\* the PUT, so exactly one PutObject is sent in all, neither call rejects, and
\* the two results carry the same key and the same integrity.
C4_SequentialIdenticalUploads ==
    /\ [][SecondProbesAfterFirst => probeExists'["u2"] /\ pc'["u2"] = "verify"]_vars
    /\ []((provider = "r2" /\ Faithful /\ SameInput /\ pc["u1"] = "done"
             /\ probeExists["u2"]) =>
            /\ Puts("u2") = {}
            /\ Puts("u1") = {2}
            /\ pc["u2"] # "failed"
            /\ pc["u2"] = "done" => SameKeyAndIntegrity)

C4_SecondResolvedWithoutPut ==
    /\ provider = "r2" /\ Faithful /\ SameInput
    /\ pc["u1"] = "done" /\ pc["u2"] = "done"
    /\ Len(log["u1"]) = 3 /\ Len(log["u2"]) = 2
    /\ probeExists["u2"]

FbPresentMatching(p) ==
    LET inp == Val(input[p])
    IN  /\ FbPath(inp) \in DOMAIN store
        /\ store[FbPath(inp)].sha = Some(sha256Hex(inp.data))

Ops(p) == [i \in DOMAIN log[p] |-> log[p][i].op]

C6_ProbeErrorsPropagate ==
    provider = "r2" =>
        \A p \in Calls :
            (log[p] # <<>> /\ Failure(log[p][1])) =>
                IF Status(log[p][1]) \in {Some(403), Some(404)}
                THEN error[p] # Some(log[p][1].answer.err)
                ELSE /\ pc[p] = "failed"
                     /\ error[p] = Some(log[p][1].answer.err)
                     /\ Len(log[p]) = 1

PutFailedOther(p) ==
    /\ Len(log[p]) >= 2
    /\ log[p][2].op = "PutObject"
    /\ Failure(log[p][2])
    /\ Status(log[p][2]) # Some(412)

MessageOf(p) == Val(error[p]).message

\* C8: after the R2 verification HEAD the checks run in the order existence,
\* sha256, size, and the first that fails raises its own error: "not found",
\* "sha256 mismatch" or "size mismatch"; an object that differs in both digest
\* and size is reported as a digest mismatch.
C8_VerificationErrorsInOrder ==
    provider = "r2" =>
        \A p \in Calls :
            R2Verified(p) =>
                LET h == LastCall(p).answer
                    data == Val(input[p]).data
                IN  /\ (~h.ok /\ h.err.status \in {Some(403), Some(404)}) =>
                           /\ pc[p] = "failed"
                           /\ Contains(MessageOf(p), <<"not", "found">>)
                           /\ ~Contains(MessageOf(p), <<"mismatch">>)
                    /\ (h.ok /\ h.Metadata # Some(sha256Hex(data))) =>
                           /\ pc[p] = "failed"
                           /\ Contains(MessageOf(p), <<"sha256", "mismatch">>)
                           /\ ~Contains(MessageOf(p), <<"size", "mismatch">>)
                           /\ ~Contains(MessageOf(p), <<"not", "found">>)
                    /\ (h.ok /\ h.Metadata = Some(sha256Hex(data))
                             /\ h.ContentLength # Some(Len(data))) =>
                           /\ pc[p] = "failed"
                           /\ Contains(MessageOf(p), <<"size", "mismatch">>)
                           /\ ~Contains(MessageOf(p), <<"sha256">>)
                           /\ ~Contains(MessageOf(p), <<"not", "found">>)

C8_DigestAndSizeBothDiffer ==
    \E p \in Calls :
        /\ provider = "r2" /\ R2Verified(p)
        /\ LastCall(p).answer.ok
        /\ LastCall(p).answer.Metadata # Some(sha256Hex(Val(input[p]).data))
        /\ LastCall(p).answer.Metadata # None
        /\ LastCall(p).answer.ContentLength # Some(Len(Val(input[p]).data))

\* the verification outcome lets the call return
OutcomePasses(p) ==
    LET o == Val(outcome[p])
    IN  /\ o.exists
        /\ o.sizeMatches # Some(FALSE)
        /\ provider = "firebase" => o.integrityMatches # "false"

\* C9: a Firebase or Drive uploadFile call returns a result only if its
\* verification reported exists = true and did not report sizeMatches = false
\* (and, on Firebase, did not report integrityMatches = false); the Drive
\* outcome's integrityMatches is always 'unknown' and never blocks; a call
\* whose verification reported otherwise rejects.
C9_FirebaseDriveReturnOnlyVerified ==
    provider \in {"firebase", "drive"} =>
        \A p \in Calls :
            /\ pc[p] = "done" =>
                   /\ outcome[p] # None /\ OutcomePasses(p)
                   /\ LastCall(p).answer.ok
                   /\ LastCall(p).answer.ContentLength = Some(Len(Val(input[p]).data))
                   /\ Returned(p) # None
            /\ (Finished(p) /\ outcome[p] # None) => (pc[p] = "done" <=> OutcomePasses(p))
            /\ (provider = "drive" /\ outcome[p] # None) =>
                   Val(outcome[p]).integrityMatches = "unknown"

C9_DriveResolvedWithUnknown ==
    /\ provider = "drive"
    /\ pc["u1"] = "done"
    /\ Val(outcome["u1"]).integrityMatches = "unknown"
    /\ Val(outcome["u1"]).sizeMatches = Some(TRUE)

DriveWriteSteps == {"files.create", "permissions.create", "files.get:links"}
DrivePublishSteps == {"permissions.create", "files.get:links"}

WriteOps == {"PutObject", "save", "files.create"}
Writes(p) == {i \in DOMAIN log[p] : log[p][i].op \in WriteOps}

\* C11: an uploadFile call, on every provider, sends at most one object write to
\* the backend (PutObject, save, files.create): no write follows a failed write
\* or a 412; a Firebase or Drive call past its write step has sent exactly one.
C11_AtMostOneWrite ==
    \A p \in Calls :
        /\ Cardinality(Writes(p)) <= 1
        /\ (provider = "firebase" /\ pc[p] \notin {"idle", "save"}) =>
               Cardinality(Writes(p)) = 1
        /\ (provider = "drive" /\ pc[p] \notin {"idle", "create"}) =>
               Cardinality(Writes(p)) = 1

C11_FinishedAfterFailedWrite ==
    \E p \in Calls :
        /\ Finished(p)
        /\ \E i \in Writes(p) : Failure(log[p][i])
        /\ Len(log[p]) = 3

\* the call is a verifyStorage call that has settled
VerifySettled(p) == input[p] # None /\ "arg" \in DOMAIN Val(input[p]) /\ Finished(p)
Arg(p) == Val(input[p]).arg
Ctx(p) == Val(input[p]).ctx

NoDigest(arg) == "integrity" \notin DOMAIN arg \/ arg.integrity = None
HasSize(arg) == "sizeBytes" \in DOMAIN arg /\ arg.sizeBytes # None

\* the last answer is an existing object
AnsweredObject(p) ==
    /\ log[p] # <<>>
    /\ LastCall(p).answer.ok
    /\ "ContentLength" \in DOMAIN LastCall(p).answer

\* C12: whenever verifyStorage is given a bare locator or a result with no
\* integrity and returns, integrityMatches is 'unknown', on every provider and
\* whatever sha256 the backend stores.
C12_NoDigestGivesUnknown ==
    \A p \in Calls :
        (VerifySettled(p) /\ pc[p] = "done" /\ NoDigest(Arg(p))) =>
            Val(outcome[p]).integrityMatches = "unknown"

C12_UnknownOverStoredDigest ==
    /\ provider = "r2" /\ VerifySettled("u1") /\ pc["u1"] = "done"
    /\ NoDigest(Arg("u1"))
    /\ AnsweredObject("u1") /\ LastCall("u1").answer.Metadata # None

\* C13 (as claimed): verifyStorage returns integrityMatches = false only when the
\* backend reported a stored digest that differs from the expected one; for an
\* existing object with no stored digest the outcome is 'unknown', on R2 as on
\* Firebase.
C13_FalseOnlyOnObservedMismatch ==
    \A p \in Calls :
        (VerifySettled(p) /\ pc[p] = "done" /\ provider \in {"r2", "firebase"}) =>
            /\ Val(outcome[p]).integrityMatches = "false" =>
                   /\ AnsweredObject(p)
                   /\ LastCall(p).answer.Metadata # None
                   /\ LastCall(p).answer.Metadata # Expected(Arg(p)).sha
            /\ (AnsweredObject(p) /\ LastCall(p).answer.Metadata = None) =>
                   Val(outcome[p]).integrityMatches = "unknown"

NotFoundOutcome == Outcome(FALSE, "unknown", None, None)

\* C14: a not-found condition never makes verifyStorage throw: an R2 HEAD or a
\* Drive files.get failing with 403 or 404 gives {exists: false,
\* integrityMatches: 'unknown'}, and so does a Firebase exists() answering false,
\* with no getMetadata sent.
C14_NotFoundIsAnOutcome ==
    \A p \in Calls :
        VerifySettled(p) =>
            /\ (provider \in {"r2", "drive"} /\ log[p] # <<>> /\ Failure(LastCall(p))
                    /\ Status(LastCall(p)) \in {Some(403), Some(404)}) =>
                   pc[p] = "done" /\ error[p] = None /\ outcome[p] = Some(NotFoundOutcome)
            /\ (provider = "firebase" /\ log[p] # <<>> /\ log[p][1].answer.ok
                    /\ ~log[p][1].answer.exists) =>
                   /\ pc[p] = "done" /\ error[p] = None
                   /\ outcome[p] = Some(NotFoundOutcome)
                   /\ Len(log[p]) = 1

C14_ForbiddenIsNotFound ==
    /\ provider = "r2" /\ VerifySettled("u1")
    /\ log["u1"] # <<>> /\ Failure(LastCall("u1"))
    /\ Status(LastCall("u1")) = Some(403)
    /\ VerifyId \in DOMAIN store

\* C15: an R2 HEAD or a Drive files.get failing with a status other than 403 or
\* 404, or with no status, makes verifyStorage reject with that same error; no
\* outcome is returned.
C15_UnexpectedErrorsPropagate ==
    \A p \in Calls :
        (VerifySettled(p) /\ provider \in {"r2", "drive"} /\ log[p] # <<>>
             /\ Failure(LastCall(p))
             /\ Status(LastCall(p)) \notin {Some(403), Some(404)}) =>
            /\ pc[p] = "failed"
            /\ error[p] = Some(LastCall(p).answer.err)
            /\ outcome[p] = None

C15_RejectedWithStatuslessError ==
    /\ provider = "drive" /\ VerifySettled("u1")
    /\ log["u1"] # <<>> /\ Failure(LastCall("u1"))
    /\ Status(LastCall("u1")) = None
    /\ pc["u1"] = "failed"

MissingClientDetails == {"Missing S3 client", "Missing GCS client", "Missing Drive client"}

\* C16 (as claimed): when the context holds no client for the locator's
\* provider (r2, firebase, drive), verifyStorage does not throw and sends no
\* backend call: it returns exists = false, integrityMatches = 'unknown' and a
\* details string naming the missing client.
C16_MissingClientIsAnOutcome ==
    \A p \in Calls :
        (VerifySettled(p) /\ provider \in Providers /\ provider \notin Ctx(p)) =>
            /\ pc[p] = "done" /\ error[p] = None
            /\ log[p] = <<>>
            /\ ~Val(outcome[p]).exists
            /\ Val(outcome[p]).integrityMatches = "unknown"
            /\ Val(outcome[p]).details \subseteq MissingClientDetails
            /\ Val(outcome[p]).details # None

\* C17 (as claimed): for a locator whose provider is none of r2, firebase, drive,
\* verifyStorage never throws and returns exactly {exists: false,
\* integrityMatches: 'unknown', details: 'Unknown provider'}, whatever integrity
\* and sizeBytes the input carries and whatever the context holds.
C17_UnknownProviderIsAnOutcome ==
    \A p \in Calls :
        (VerifySettled(p) /\ provider \notin Providers) =>
            /\ pc[p] = "done" /\ error[p] = None
            /\ log[p] = <<>>
            /\ outcome[p] = Some(Outcome(FALSE, "unknown", None, Some("Unknown provider")))

\* C18: for a Drive locator every outcome verifyStorage returns has
\* integrityMatches = 'unknown', with or without an expected digest; sizeMatches
\* is the only comparison it reports.
C18_DriveIntegrityAlwaysUnknown ==
    \A p \in Calls :
        (VerifySettled(p) /\ provider = "drive" /\ pc[p] = "done") =>
            Val(outcome[p]).integrityMatches = "unknown"

C18_DriveUnknownWithSizeMismatch ==
    /\ provider = "drive" /\ VerifySettled("u1") /\ pc["u1"] = "done"
    /\ ~NoDigest(Arg("u1"))
    /\ Val(outcome["u1"]).exists
    /\ Val(outcome["u1"]).sizeMatches = Some(FALSE)

\* C19 (as claimed): for an existing object verifyStorage sets sizeMatches to
\* (reported size = sizeBytes) whenever the input carries sizeBytes, and leaves
\* it unset exactly when it carries none, whether or not the input carries an
\* integrity.
C19_SizeComparedWheneverSupplied ==
    \A p \in Calls :
        (VerifySettled(p) /\ pc[p] = "done" /\ Val(outcome[p]).exists) =>
            IF HasSize(Arg(p))
            THEN Val(outcome[p]).sizeMatches =
                     Some(LastCall(p).answer.ContentLength = Arg(p).sizeBytes)
            ELSE Val(outcome[p]).sizeMatches = None

ReadOps == {"HeadObject", "exists", "getMetadata", "files.get:size"}
MetadataFields == {"ok", "err", "exists", "Metadata", "ContentLength"}

\* C20: verifyStorage is read-only and metadata-only: the calls it sends are
\* HeadObject, exists, getMetadata and the files.get of metadata fields, their
\* answers carry no object bytes, and no step of it changes the objects the
\* backend holds.
C20_VerifyIsReadOnly ==
    /\ [][Verify("u1") => store' = store]_vars
    /\ [](\A p \in Calls :
            \A i \in DOMAIN log[p] :
                /\ log[p][i].op \in ReadOps
                /\ DOMAIN log[p][i].answer \subseteq MetadataFields)

C20_VerifiedExistingObject ==
    /\ VerifySettled("u1") /\ pc["u1"] = "done"
    /\ Val(outcome["u1"]).exists
    /\ VerifyId \in DOMAIN store
    /\ Len(log["u1"]) = 2


DeleteSettled(p) == pc[p] \in {"done", "failed"}
DeleteAnswer(p) == LastCall(p).answer
HasClient(p) == LocatorOf(Arg(p)).provider \in Providers \cap Ctx(p)
NotFoundAnswer(a) == ~a.ok /\ a.err.status = Some(404)

C22_MissingClientIsFatal ==
    \A p \in Calls :
        (input[p] # None /\ ~HasClient(p)) =>
            /\ pc[p] = "failed"
            /\ log[p] = <<>>
            /\ error[p] =
                 Some(IF provider = "r2" THEN MissingClientForDelete("S3")
                      ELSE IF provider = "firebase" THEN MissingClientForDelete("GCS")
                      ELSE IF provider = "drive" THEN MissingClientForDelete("Drive")
                      ELSE UnknownProviderForDelete)

\* a delete without the R2 client rejected while the object is in the bucket
C22_RejectedWithObjectPresent ==
    /\ provider = "r2"
    /\ input["u1"] # None /\ ~HasClient("u1")
    /\ pc["u1"] = "failed"
    /\ VerifyId \in DOMAIN store

\* C23: on R2 and Drive a delete call answered with status 403 or 404 completes
\* successfully, as a verification answered so reports exists = false
C23_DeleteNormalizesNotFoundClass ==
    \A p \in Calls :
        (provider \in {"r2", "drive"} /\ DeleteSettled(p) /\ log[p] # <<>> /\
         ~DeleteAnswer(p).ok /\ NotFoundStatus(DeleteAnswer(p).err.status))
            => pc[p] = "done"


SameBytesAndExtension(p, q) ==
    /\ input[p] # None /\ input[q] # None
    /\ Val(input[p]).data = Val(input[q]).data
    /\ extFromNameOrMime(Val(input[p]).name) = extFromNameOrMime(Val(input[q]).name)

\* C24: two R2 uploads of the same bytes with the same extension derive the same
\* key, whatever the file names and whichever call runs first: they write to one
\* object and return the same key and locator
C24_KeyFromContentAndExtension ==
    \A p, q \in Calls :
        SameBytesAndExtension(p, q) =>
            /\ R2Key(Val(input[p])) = R2Key(Val(input[q]))
            /\ p # q => DOMAIN store \subseteq {R2Key(Val(input[p]))}
            /\ (pc[p] = "done" /\ pc[q] = "done") =>
                   /\ Val(Returned(p)).key = Val(Returned(q)).key
                   /\ Val(Returned(p)).locator = Val(Returned(q)).locator

\* two uploads of the same bytes under different names resolved, one object
\* having been created
C24_TwoNamesOneObject ==
    /\ SameBytesAndExtension("u1", "u2")
    /\ Val(input["u1"]).name # Val(input["u2"]).name
    /\ pc["u1"] = "done" /\ pc["u2"] = "done"
    /\ Cardinality(CreatingPuts) = 1


BothReturned == pc["u1"] = "done" /\ pc["u2"] = "done"
DataOf(p) == Val(input[p]).data
NameOf(p) == Val(input[p]).name
KeyOf(p) == Val(Returned(p)).key

C28_MalformedInputSendsNothing ==
    \A p \in Calls :
        (input[p] # None /\ ~HasData(Val(input[p]))) => log[p] = <<>>


Fn(p) == Val(input[p]).fn
Args(p) == Val(input[p]).args
Decoded(p) == input[p] # None /\ Fn(p) \in {"sriToHex", "base64ToHex"}

\* C26: the tag computeSRI gives for any bytes, decoded with sriToHex or with
\* parseSRI and base64ToHex, is the hex SHA-256 of those bytes; it is also the
\* sha256 the R2 and Firebase uploads store and the digest verifyStorage expects
C26_DigestRoundTrip ==
    /\ \A p \in Calls : \A d \in ByteStrings :
           (Decoded(p) /\ Args(p).sri = computeSRI(d, SHA256))
               => (pc[p] = "done" /\ outcome[p] = Some(sha256Hex(d)))
    /\ \A d \in Contents :
           /\ Sha256HexOf[d] = sha256Hex(d)
           /\ FbSha256HexFor(d) = Some(sha256Hex(d))
           /\ Expected([integrity |-> Some(IntegrityOf[d]), sizeBytes |-> None]).sha
                = Some(sha256Hex(d))

\* the tag of the bytes 0, 255 decoded
C26_DecodedComputedTag ==
    /\ Decoded("u1") /\ pc["u1"] = "done"
    /\ Args("u1").sri = computeSRI(<<0, 255>>, SHA256)
    /\ outcome["u1"] # None

\* C27: decoding a tag that is not <algo>-<base64> with a digest of the
\* algorithm's size fails: it never returns a hex string
C27_MalformedTagsFailToDecode ==
    \A p \in Calls :
        (Decoded(p) /\ ~WellFormedTag(Args(p).sri))
            => (pc[p] = "failed" /\ outcome[p] = None)

IntegrityMissing ==
    ErrorOf(<<"Integrity", "missing", "and", "no", "data", "provided", "to", "compute", "it">>)

\* C29: a result finalizeResult returns carries a valid integrity - the supplied
\* one as it is, else the one computed from the data with the given algorithm
\* (sha256 by default) - and the other fields unchanged; with neither integrity
\* nor data the call throws "Integrity missing and no data provided to compute it"
C29_FinalizedResultsCarryIntegrity ==
    \A p \in Calls :
        (input[p] # None /\ Fn(p) = "finalizeResult") =>
            LET f == Args(p).fields
                d == Args(p).data
                a == Args(p).algo
            IN  /\ pc[p] = "done" =>
                     LET res == Val(outcome[p])
                     IN  /\ ValidSRI(Val(res.integrity))
                         /\ f.integrity # None => res.integrity = f.integrity
                         /\ f.integrity = None =>
                                res.integrity =
                                  Some(computeSRI(Val(d), IF a = None THEN SHA256 ELSE Val(a)))
                         /\ res.url = f.url /\ res.downloadUrl = f.downloadUrl
                         /\ res.key = f.key /\ res.sizeBytes = f.sizeBytes
                         /\ res.locator = f.locator
                /\ (f.integrity = None /\ d = None) =>
                       (pc[p] = "failed" /\ outcome[p] = None /\ error[p] = Some(IntegrityMissing))

\* a supplied integrity returned as it is although data was supplied too
C29_SuppliedIntegrityKept ==
    /\ input["u1"] # None /\ Fn("u1") = "finalizeResult" /\ pc["u1"] = "done"
    /\ Args("u1").fields.integrity # None /\ Args("u1").data = Some(<<0, 255>>)
    /\ Val(outcome["u1"]).integrity = Args("u1").fields.integrity


\* after merging c: a key c gives a value to holds it, every other key reads as
\* it did before
MergedInto(c) ==
    \A k \in ConfigKeys :
        IF k \in DOMAIN c /\ c[k] # None
        THEN getEnvironment(k)' = c[k]
        ELSE getEnvironment(k)' = getEnvironment(k)

\* C30: registerEnvironments(c), also when called by loadFromProcessEnv, is a
\* non-destructive merge - the keys c gives a value to hold it, every other key,
\* such as one whose environment variable is unset, keeps its value - and a load
\* repeated at once would change nothing
C30_RegisteringIsNonDestructive ==
    [][/\ \A c \in Configs : registerEnvironments(c) => MergedInto(c)
       /\ loadFromProcessEnv =>
              /\ MergedInto(ProcessEnvMap)
              /\ Spread(environments', ProcessEnvMap) = environments']_vars

(***************************************************************************)
(* buildImmutableKey                                                       *)
(***************************************************************************)
BuiltKey(p) ==
    /\ pc[p] = "done"
    /\ input[p] # None
    /\ Val(input[p]).fn = "buildImmutableKey"

\* s with every '/' that follows a '/' left out
WithoutSlashRuns(s) ==
    LET keep == {i \in 1..Len(s) : ~(s[i] = "/" /\ i > 1 /\ s[i - 1] = "/")}
        nth(k) == CHOOSE i \in keep : Cardinality({j \in keep : j <= i}) = k
    IN  [k \in 1..Cardinality(keep) |-> s[nth(k)]]

\* the part of a file name after its last '.', 'bin' when the name has no '.',
\* only a leading one, or nothing after it
ExtensionOf(name) ==
    LET dots == {i \in 2..Len(name) : name[i] = "."}
        last == CHOOSE i \in dots : \A j \in dots : j <= i
    IN  IF dots = {} \/ last = Len(name) THEN <<"b","i","n">>
        ELSE SubSeq(name, last + 1, Len(name))

\* C31: buildImmutableKey returns the key <uploadPath>/<hashPart>.<ext> with every
\* run of slashes collapsed to one, where hashPart is the first 20 hex characters
\* of the SHA-256 of the data in the short form (the default) and the whole digest
\* otherwise, ext is the extension of the file name or 'bin' when it has none, and
\* the returned hash is always the whole digest (2 * DigestBytes = 64 hex characters)
C31_ImmutableKeyShape ==
    \A p \in Calls :
        BuiltKey(p) =>
            LET a == Val(input[p]).args
                r == Val(outcome[p])
                digest == ToHex(Sha256(a.data))
                prefix == IF a.uploadPath = None THEN Assets ELSE Val(a.uploadPath)
                short == a.useShort = None \/ a.useShort = Some(TRUE)
                hashPart == IF short THEN SubSeq(digest, 1, 20) ELSE digest
            IN  /\ r.hash = digest
                /\ Len(r.hash) = 2 * DigestBytes
                /\ Len(hashPart) = IF short THEN 20 ELSE 2 * DigestBytes
                /\ r.key = WithoutSlashRuns(prefix \o <<"/">> \o hashPart \o <<".">>
                                            \o ExtensionOf(a.filename))
                /\ \A i \in 1..(Len(r.key) - 1) : ~(r.key[i] = "/" /\ r.key[i + 1] = "/")

\* a short-form key was built for a name without extension under a path with a
\* run of slashes
C31_ShortKeyBuilt ==
    \E p \in Calls :
        /\ BuiltKey(p)
        /\ Val(input[p]).args.useShort = None
        /\ Val(input[p]).args.uploadPath = Some(<<"a","/","/","b","/">>)
        /\ Val(input[p]).args.filename = <<"n","o","e","x","t">>
        /\ Len(Val(outcome[p]).key) = 4 + 20 + 4
        /\ Len(Val(outcome[p]).hash) = 2 * DigestBytes

(***************************************************************************)
(* Immutability of R2 objects                                              *)
(***************************************************************************)
\* the call p made a PutObject call in this step
PutIssued(p) == Len(log'[p]) = Len(log[p]) + 1 /\ log'[p][Len(log'[p])].op = "PutObject"

\* C32: against a backend that enforces If-None-Match: *, no step of any
\* interleaving of R2 uploadFile calls changes the bytes or the sha256 metadata of
\* an object that exists or removes it; every PUT is conditional on absence: it
\* creates the object when the key is free and is answered 412, the store left
\* alone, when the key is taken
C32_R2ObjectsImmutable ==
    [][/\ \A k \in DOMAIN store : k \in DOMAIN store' /\ store'[k] = store[k]
       /\ \A p \in Calls :
              PutIssued(p) =>
                  LET inp == Val(input[p])
                      answer == log'[p][Len(log'[p])].answer
                  IN  IF R2Key(inp) \in DOMAIN store
                      THEN answer = Failed("PutObject", Some(412)) /\ store' = store
                      ELSE /\ answer = Ok
                           /\ store' = With(store, R2Key(inp),
                                            Object(inp.data, Some(R2ContentSha256Hex(inp))))]_vars

\* an upload has sent its PUT for a key held by an object with other bytes and
\* another sha256, the PUT was answered 412 and the object is still the same
C32_PutRefusedObjectKept ==
    \E p \in Calls :
        /\ provider = "r2"
        /\ pc[p] \in {"verify", "done", "failed"}
        /\ Len(log[p]) >= 2
        /\ log[p][2] = LogEntry("PutObject", Failed("PutObject", Some(412)))
        /\ LET inp == Val(input[p])
           IN  /\ R2Key(inp) \in DOMAIN store
               /\ store[R2Key(inp)].data # inp.data
               /\ store[R2Key(inp)].sha # Some(R2ContentSha256Hex(inp))

\* the probe of p found the key taken by an object whose sha256 metadata is
\* missing or is not the digest of the bytes p supplies
ProbeFoundOtherObject(p) ==
    /\ provider = "r2"
    /\ Len(log[p]) >= 1
    /\ log[p][1].op = "HeadObject"
    /\ log[p][1].answer.ok
    /\ log[p][1].answer.Metadata # Some(R2ContentSha256Hex(Val(input[p])))

\* C33: when the R2 probe finds the key present with a different or missing
\* stored sha256, the upload re-uploads: once the call has completed it has
\* succeeded and the object under the key carries the digest of the supplied bytes
C33_MismatchForcesReupload ==
    \A p \in Calls :
        (ProbeFoundOtherObject(p) /\ pc[p] \in {"done", "failed"}) =>
            LET inp == Val(input[p])
            IN  /\ pc[p] = "done"
                /\ R2Key(inp) \in DOMAIN store
                /\ store[R2Key(inp)].sha = Some(R2ContentSha256Hex(inp))

(***************************************************************************)
(* No rollback                                                             *)
(***************************************************************************)
DeleteOps == {"DeleteObject", "delete", "files.delete"}

\* the write of the call p was made and answered with success
WriteSucceeded(p) == \E i \in 1..Len(log[p]) : log[p][i].op \in WriteOps /\ log[p][i].answer.ok

\* the id the call p writes to
WrittenId(p) ==
    IF provider = "r2" THEN R2Key(Val(input[p]))
    ELSE IF provider = "firebase" THEN FbPath(Val(input[p]))
    ELSE FileId(p)

\* C34: uploadFile issues no delete on any provider and rolls nothing back: an
\* upload whose write succeeded and which then rejects (post-write verification
\* failure, makePublic failure on Firebase) leaves the object it wrote in place
C34_NoDeleteNoRollback ==
    \A p \in Calls :
        /\ \A i \in 1..Len(log[p]) : log[p][i].op \notin DeleteOps
        /\ (pc[p] = "failed" /\ WriteSucceeded(p)) =>
               /\ WrittenId(p) \in DOMAIN store
               /\ store[WrittenId(p)].data = BodyOf(Val(input[p]))

\* a Firebase upload saved its object, makePublic failed, the call rejected and
\* the object is in the bucket
C34_RejectedAfterWrite ==
    \E p \in Calls :
        /\ provider = "firebase"
        /\ pc[p] = "failed"
        /\ Len(log[p]) = 2
        /\ log[p][1] = LogEntry("save", Ok)
        /\ log[p][2].op = "makePublic" /\ ~log[p][2].answer.ok
        /\ FbPath(Val(input[p])) \in DOMAIN store

(***************************************************************************)
(* A delete between the probe and the verification                         *)
(***************************************************************************)
\* the R2 call p skipped its write and its verify HEAD was answered 404
SkippedThenAbsent(p) ==
    /\ provider = "r2"
    /\ probeExists[p]
    /\ Len(log[p]) = 2
    /\ log[p][2] = LogEntry("HeadObject", Failed("HeadObject", Some(404)))

\* C35: an R2 upload that skipped its write because the probe found a matching
\* object, and whose object was deleted by another caller before the verify HEAD,
\* rejects with 'object not found after upload' and has issued no PUT; no R2
\* upload resolves when its verify HEAD saw the object absent
C35_DeletedBeforeVerifyRejects ==
    \A p \in Calls :
        /\ SkippedThenAbsent(p) =>
               /\ pc[p] = "failed"
               /\ error[p] = Some(ErrorOf(NotFoundAfterUpload("r2")))
               /\ \A i \in 1..Len(log[p]) : log[p][i].op # "PutObject"
               /\ Returned(p) = None
        /\ (provider = "r2" /\ pc[p] = "done") =>
               log[p][Len(log[p])].op = "HeadObject" /\ log[p][Len(log[p])].answer.ok

\* the probe found the matching object, another caller deleted it, and the
\* verify HEAD of the upload was answered 404
C35_SkippedWriteObjectDeleted ==
    \E p \in Calls :
        /\ SkippedThenAbsent(p)
        /\ log[p][1].answer.ok
        /\ R2Key(Val(input[p])) \notin DOMAIN store
        /\ envSteps = 2

(***************************************************************************)
(* Validity of a Firebase result                                           *)
(***************************************************************************)
\* what verifyStorage(result, ctx) reports now for the result the Firebase call p
\* returned, the backend answering faithfully
VerifyReturned(p) ==
    LET inp == Val(input[p])
        exp == Expected(Val(Returned(p)))
        ex == verifyFirebaseExists(TRUE, [ok |-> TRUE, exists |-> FbPath(inp) \in DOMAIN store])
    IN  IF "continue" \in DOMAIN ex
        THEN verifyFirebaseMeta(MetaOk(store[FbPath(inp)]), exp.sha, exp.size)
        ELSE ex

\* C36: the StorageResult a successful Firebase uploadFile returned stays a valid
\* reference: while no delete is issued, no later or concurrent uploadFile makes
\* verifyStorage on it report integrityMatches = false or sizeMatches = false
C36_FirebaseResultStaysValid ==
    \A p \in Calls :
        (provider = "firebase" /\ pc[p] = "done") =>
            LET v == VerifyReturned(p)
            IN  /\ ~v.throws
                /\ v.outcome.integrityMatches # "false"
                /\ v.outcome.sizeMatches # Some(FALSE)

====
